---------------------------- MODULE Spec2Model ----------------------------
(***************************************************************************)
(* Model of the message formatter (formatInlineText, formatMessageContent, *)
(* CalloutBox.detectType) of the chat client.                              *)
(*                                                                         *)
(* A JavaScript string is a sequence of UTF-16 code units.  A code unit is *)
(* a one-character TLA+ string; the code units outside ASCII that the code *)
(* mentions are written "U+xxxx".  Positions are 1-based: JavaScript index *)
(* n is position n + 1.                                                    *)
(***************************************************************************)
EXTENDS Integers, Sequences, FiniteSets, TLC

VARIABLES
    content,    \* the raw text handed to the formatter
    pc,         \* "new" | "message" | "inline", or the position inside a call
    nodes,      \* what formatMessageContent(content) returned
    fragments,  \* what formatInlineText(content) returned
    scan,       \* the locals of formatText while it runs step by step
    isExpanded, \* the isExpanded state of the CodeBlock that shows content
    layout,     \* the state of MainLayout: activeRepo and currentScreen
    chat,       \* the state of the mounted ChatScreen and its interval timer
    net,        \* the requests sent to the backend and not yet answered
    setup,      \* the state of the mounted RepositorySetupScreen
    sidebar     \* the state of the sidebar

ui == <<layout, chat, net, setup, sidebar>>

vars == <<content, pc, nodes, fragments, scan, isExpanded, layout, chat, net,
          setup, sidebar>>

----------------------------------------------------------------------------
(* Code units and character classes *)

NL == "\n"
LowerCase == {"a","b","c","d","e","f","g","h","i","j","k","l","m",
              "n","o","p","q","r","s","t","u","v","w","x","y","z"}
UpperCase == {"A","B","C","D","E","F","G","H","I","J","K","L","M",
              "N","O","P","Q","R","S","T","U","V","W","X","Y","Z"}
Digit == {"0","1","2","3","4","5","6","7","8","9"}
\* \w
WordChar == LowerCase \cup UpperCase \cup Digit \cup {"_"}
\* \s (the white space and line terminators of the modelled inputs)
WhiteSpace == {" ", "\t", NL, "\r", "\f"}
\* what "." does not match
LineTerminator == {NL, "\r"}

BULLET == "U+2022"
EMDASH == "U+2014"
BACKTICK == "U+0060"

\* String.prototype.toLowerCase, one code unit
LowerOf(c) ==
    CASE c = "A" -> "a" [] c = "B" -> "b" [] c = "C" -> "c" [] c = "D" -> "d"
      [] c = "E" -> "e" [] c = "F" -> "f" [] c = "G" -> "g" [] c = "H" -> "h"
      [] c = "I" -> "i" [] c = "J" -> "j" [] c = "K" -> "k" [] c = "L" -> "l"
      [] c = "M" -> "m" [] c = "N" -> "n" [] c = "O" -> "o" [] c = "P" -> "p"
      [] c = "Q" -> "q" [] c = "R" -> "r" [] c = "S" -> "s" [] c = "T" -> "t"
      [] c = "U" -> "u" [] c = "V" -> "v" [] c = "W" -> "w" [] c = "X" -> "x"
      [] c = "Y" -> "y" [] c = "Z" -> "z" [] OTHER -> c

toLowerCase(s) == [i \in 1..Len(s) |-> LowerOf(s[i])]

----------------------------------------------------------------------------
(* String operations of the JavaScript runtime *)

\* s.slice(from), s.slice(from, to) with 1-based positions, to exclusive
Slice(s, from, to) == SubSeq(s, from, to - 1)

\* s.startsWith(p)
startsWith(s, p) == Len(p) <= Len(s) /\ SubSeq(s, 1, Len(p)) = p

IncludesAt(s, p, i) == i + Len(p) - 1 <= Len(s) /\ SubSeq(s, i, i + Len(p) - 1) = p

\* s.includes(p)
includes(s, p) == \E i \in 1..(Len(s) + 1) : IncludesAt(s, p, i)

Min(S) == CHOOSE x \in S : \A y \in S : x <= y
Max(S) == CHOOSE x \in S : \A y \in S : x >= y
\* the k-th smallest element of a set of numbers
Nth(S, k) == CHOOSE x \in S : Cardinality({y \in S : y < x}) = k - 1

\* s.trimEnd() in the place of s.trim()
trimEnd(s) ==
    LET kept == {i \in 1..Len(s) : s[i] \notin WhiteSpace}
    IN IF kept = {} THEN <<>> ELSE SubSeq(s, 1, Max(kept))

\* s.trim()
trim(s) ==
    LET kept == {i \in 1..Len(s) : s[i] \notin WhiteSpace}
    IN IF kept = {} THEN <<>> ELSE SubSeq(s, Min(kept), Max(kept))

\* s.split(sep) for a one-unit separator
split(s, sep) ==
    LET at == {i \in 1..Len(s) : s[i] = sep}
        n == Cardinality(at)
    IN [k \in 1..(n + 1) |->
            Slice(s, IF k = 1 THEN 1 ELSE Nth(at, k - 1) + 1,
                     IF k = n + 1 THEN Len(s) + 1 ELSE Nth(at, k))]

\* a.join(sep)
RECURSIVE join(_, _)
join(a, sep) ==
    IF a = <<>> THEN <<>>
    ELSE IF Len(a) = 1 THEN a[1]
         ELSE a[1] \o sep \o join(Tail(a), sep)

\* a.filter(...), the kept elements given by their indices, in order
FilterIdx(a, keep) == [k \in 1..Cardinality(keep) |-> a[Nth(keep, k)]]

\* decimal digits of a natural number (String(n))
RECURSIVE DecimalOf(_)
DecimalOf(n) ==
    LET d == <<"0","1","2","3","4","5","6","7","8","9">>[(n % 10) + 1]
    IN IF n < 10 THEN <<d>> ELSE DecimalOf(n \div 10) \o <<d>>

----------------------------------------------------------------------------
(* Regular expressions: the syntax tree of a pattern and the backtracking  *)
(* match of ECMAScript (first alternative first, greedy quantifiers try    *)
(* one more iteration first, lazy ones try to stop first).                 *)

In(S)       == [t |-> "set", s |-> S]
NotIn(S)    == [t |-> "nset", s |-> S]
Lit1(c)     == In({c})
AnyChar     == NotIn({})                \* [\s\S], and "." under the s flag
Dot         == NotIn(LineTerminator)    \* "."
Lit(str)    == [t |-> "lit", str |-> str]
Cat(rs)     == [t |-> "cat", rs |-> rs]
Alt(a, b)   == [t |-> "alt", a |-> a, b |-> b]
Rep(r, lo, hi, greedy) == [t |-> "rep", r |-> r, lo |-> lo, hi |-> hi, greedy |-> greedy]
Star(r)     == Rep(r, 0, -1, TRUE)      \* r*
Plus(r)     == Rep(r, 1, -1, TRUE)      \* r+
Opt(r)      == Rep(r, 0, 1, TRUE)       \* r?
StarLazy(r) == Rep(r, 0, -1, FALSE)     \* r*?
Group(n, r) == [t |-> "grp", n |-> n, r |-> r]
Bol(m)      == [t |-> "bol", m |-> m]   \* ^ (m: the m flag)
Eol(m)      == [t |-> "eol", m |-> m]   \* $
WordBoundary == [t |-> "wb"]            \* \b
NotAhead(r)  == [t |-> "nla", r |-> r]  \* (?!r)
NotBehind1(S) == [t |-> "nlb", s |-> S] \* (?<![S])

NoCaps == <<<<0, 0>>, <<0, 0>>, <<0, 0>>>>
FAIL == [ok |-> FALSE]

IsWordAt(s, i) == i >= 1 /\ i <= Len(s) /\ s[i] \in WordChar

\* a character class matches the code unit at position j
ClassHas(r, s, j) == IF r.t = "set" THEN s[j] \in r.s ELSE s[j] \notin r.s

\* the most iterations a quantified character class can take from position i
MaxRun(r, s, i) ==
    LET most == IF r.hi = -1 \/ r.hi > Len(s) + 1 - i THEN Len(s) + 1 - i ELSE r.hi
    IN Max({n \in 0..most : \A j \in i..(i + n - 1) : ClassHas(r.r, s, j)})

\* k: the patterns still to match, in order, from position i.  A quantified
\* character class takes the most (greedy) or the fewest (lazy) iterations
\* after which the rest matches; any other quantified pattern is matched
\* one iteration at a time.
RECURSIVE Run(_, _, _, _)
RunFrom(k, s, i, caps) ==
    CASE k = <<>> -> [ok |-> TRUE, pos |-> i, caps |-> caps]
      [] k /= <<>> /\ k[1].t \in {"set", "nset"} ->
            IF i <= Len(s) /\ ClassHas(k[1], s, i)
            THEN Run(Tail(k), s, i + 1, caps) ELSE FAIL
      [] k /= <<>> /\ k[1].t = "lit" ->
            IF IncludesAt(s, k[1].str, i)
            THEN Run(Tail(k), s, i + Len(k[1].str), caps) ELSE FAIL
      [] k /= <<>> /\ k[1].t = "cat" -> Run(k[1].rs \o Tail(k), s, i, caps)
      [] k /= <<>> /\ k[1].t = "alt" ->
            IF Run(<<k[1].a>> \o Tail(k), s, i, caps).ok
            THEN Run(<<k[1].a>> \o Tail(k), s, i, caps)
            ELSE Run(<<k[1].b>> \o Tail(k), s, i, caps)
      [] k /= <<>> /\ k[1].t = "rep" /\ k[1].r.t \in {"set", "nset"} ->
            LET good == {n \in k[1].lo..MaxRun(k[1], s, i) :
                            Run(Tail(k), s, i + n, caps).ok}
            IN IF good = {} THEN FAIL
               ELSE Run(Tail(k), s, i + (IF k[1].greedy THEN Max(good) ELSE Min(good)), caps)
      [] k /= <<>> /\ k[1].t = "rep" /\ k[1].r.t \notin {"set", "nset"} ->
            LET r == k[1]
                less == IF r.hi = -1 THEN -1 ELSE r.hi - 1
                again == <<r.r, [t |-> "moved", from |-> i],
                           [r EXCEPT !.lo = IF @ > 0 THEN @ - 1 ELSE 0, !.hi = less]>>
                         \o Tail(k)
            IN IF r.lo > 0
               THEN Run(<<r.r, [r EXCEPT !.lo = @ - 1, !.hi = less]>> \o Tail(k), s, i, caps)
               ELSE IF r.hi = 0 THEN Run(Tail(k), s, i, caps)
               ELSE IF r.greedy
                    THEN IF Run(again, s, i, caps).ok
                         THEN Run(again, s, i, caps) ELSE Run(Tail(k), s, i, caps)
                    ELSE IF Run(Tail(k), s, i, caps).ok
                         THEN Run(Tail(k), s, i, caps) ELSE Run(again, s, i, caps)
      \* an iteration of a quantifier that matched the empty string is rejected
      [] k /= <<>> /\ k[1].t = "moved" ->
            IF i = k[1].from THEN FAIL ELSE Run(Tail(k), s, i, caps)
      [] k /= <<>> /\ k[1].t = "grp" ->
            Run(<<k[1].r, [t |-> "close", n |-> k[1].n, from |-> i]>> \o Tail(k), s, i, caps)
      [] k /= <<>> /\ k[1].t = "close" ->
            Run(Tail(k), s, i, [caps EXCEPT ![k[1].n] = <<k[1].from, i>>])
      [] k /= <<>> /\ k[1].t = "bol" ->
            IF i = 1 \/ (k[1].m /\ s[i - 1] \in LineTerminator)
            THEN Run(Tail(k), s, i, caps) ELSE FAIL
      [] k /= <<>> /\ k[1].t = "eol" ->
            IF i = Len(s) + 1 \/ (k[1].m /\ s[i] \in LineTerminator)
            THEN Run(Tail(k), s, i, caps) ELSE FAIL
      [] k /= <<>> /\ k[1].t = "wb" ->
            IF IsWordAt(s, i - 1) /= IsWordAt(s, i) THEN Run(Tail(k), s, i, caps) ELSE FAIL
      [] k /= <<>> /\ k[1].t = "nla" ->
            IF Run(<<k[1].r>>, s, i, caps).ok THEN FAIL ELSE Run(Tail(k), s, i, caps)
      [] k /= <<>> /\ k[1].t = "nlb" ->
            IF i > 1 /\ s[i - 1] \in k[1].s THEN FAIL ELSE Run(Tail(k), s, i, caps)

\* the arguments are evaluated once, before the patterns are matched
Run(k, s, i, caps) ==
    CHOOSE r \in {RunFrom(kk, ss, ii, cc) : kk \in {k}, ss \in {s}, ii \in {i}, cc \in {caps}} : TRUE

NoMatch == [ok |-> FALSE]

\* regex.exec(s) with regex.lastIndex at position from (the g flag), and
\* s.match(regex) without the g flag (from = 1): the leftmost match
MatchResult(index, r) == [ok |-> TRUE, index |-> index, end |-> r.pos, caps |-> r.caps]

\* starts: the positions where the regex matches
FirstMatch(regex, s, starts) ==
    IF starts = {} THEN NoMatch
    ELSE MatchResult(Min(starts), Run(<<regex>>, s, Min(starts), NoCaps))

exec(regex, s, from) ==
    FirstMatch(regex, s, {p \in from..(Len(s) + 1) : Run(<<regex>>, s, p, NoCaps).ok})

match(s, regex) == exec(regex, s, 1)

\* regex.test(s) / truthiness of s.match(regex)
test(s, regex) == \E p \in 1..(Len(s) + 1) : Run(<<regex>>, s, p, NoCaps).ok

\* match[n]: the text of capture group n
Cap(s, m, n) == Slice(s, m.caps[n][1], m.caps[n][2])

----------------------------------------------------------------------------
(* formatInlineText: the patterns, in order of priority *)

Alnum == LowerCase \cup UpperCase \cup Digit

\* /BT([^BT\n]+(?:\n[^BT]*)*?)BT/g  (BT: the backtick)
CodeSpanRegex ==
    Cat(<<Lit1(BACKTICK),
          Group(1, Cat(<<Plus(NotIn({BACKTICK, NL})),
                         StarLazy(Cat(<<Lit1(NL), Star(NotIn({BACKTICK}))>>))>>)),
          Lit1(BACKTICK)>>)

\* /\[([^\]]+)\]\(([^)]+)\)/g
MarkdownLinkRegex ==
    Cat(<<Lit1("["), Group(1, Plus(NotIn({"]"}))), Lit1("]"),
          Lit1("("), Group(2, Plus(NotIn({")"}))), Lit1(")")>>)

HttpPrefix == Opt(Cat(<<Lit(<<"h","t","t","p">>), Opt(Lit1("s")), Lit(<<":","/","/">>)>>))

\* /(?:https?:\/\/)?(?:www\.)?[-a-zA-Z0-9@:%._\+~#=]{1,256}\.[a-zA-Z0-9()]{1,6}\b(?:[-a-zA-Z0-9()@:%_\+.~#?&=]*)/g
UrlRegex ==
    Cat(<<HttpPrefix,
          Opt(Lit(<<"w","w","w",".">>)),
          Rep(In(Alnum \cup {"-","@",":","%",".","_","+","~","#","="}), 1, 256, TRUE),
          Lit1("."),
          Rep(In(Alnum \cup {"(",")"}), 1, 6, TRUE),
          WordBoundary,
          Star(In(Alnum \cup {"-","(",")","@",":","%","_","+",".","~","#","?","&","="}))>>)

\* /(?:https?:\/\/)?github\.com\/[\w\-\.]+\/[\w\-\.]+(?:\/[^\s]*)?/g
GitHubRegex ==
    Cat(<<HttpPrefix,
          Lit(<<"g","i","t","h","u","b",".","c","o","m","/">>),
          Plus(In(WordChar \cup {"-","."})),
          Lit1("/"),
          Plus(In(WordChar \cup {"-","."})),
          Opt(Cat(<<Lit1("/"), Star(NotIn(WhiteSpace))>>))>>)

\* /\b[A-Za-z0-9._%+-]+@[A-Za-z0-9.-]+\.[A-Z|a-z]{2,}\b/g
EmailRegex ==
    Cat(<<WordBoundary,
          Plus(In(Alnum \cup {".","_","%","+","-"})),
          Lit1("@"),
          Plus(In(Alnum \cup {".","-"})),
          Lit1("."),
          Rep(In(UpperCase \cup LowerCase \cup {"|"}), 2, -1, TRUE),
          WordBoundary>>)

\* /\*\*([^*\n]+(?:\*(?!\*)[^*\n]*)*)\*\*/g
BoldRegex ==
    Cat(<<Lit(<<"*","*">>),
          Group(1, Cat(<<Plus(NotIn({"*", NL})),
                         Star(Cat(<<Lit1("*"), NotAhead(Lit1("*")),
                                    Star(NotIn({"*", NL}))>>))>>)),
          Lit(<<"*","*">>)>>)

\* /(?<!\*)\*([^*\n]+)\*(?!\*)/g
ItalicRegex ==
    Cat(<<NotBehind1({"*"}), Lit1("*"), Group(1, Plus(NotIn({"*", NL}))),
          Lit1("*"), NotAhead(Lit1("*"))>>)

\* /~~([^~\n]+)~~/g
StrikeRegex ==
    Cat(<<Lit(<<"~","~">>), Group(1, Plus(NotIn({"~", NL}))), Lit(<<"~","~">>)>>)

\* /==([^=\n]+)==/g
HighlightRegex ==
    Cat(<<Lit(<<"=","=">>), Group(1, Plus(NotIn({"=", NL}))), Lit(<<"=","=">>)>>)

\* An inline fragment: a string of the parts array is a Text fragment, an
\* element is a fragment of its kind.
Text(str) == [kind |-> "Text", value |-> str, href |-> <<>>]
Frag(kind, value, href) == [kind |-> kind, value |-> value, href |-> href]

Https == <<"h","t","t","p","s",":","/","/">>
Http == <<"h","t","t","p",":","/","/">>
Mailto == <<"m","a","i","l","t","o",":">>

\* the href of a markdown link
LinkHref(url) ==
    IF startsWith(url, Http) \/ startsWith(url, Https) THEN url
    ELSE IF startsWith(url, <<"w","w","w",".">>) THEN Https \o url
    ELSE IF startsWith(url, <<"/">>) THEN url
    ELSE IF ~includes(url, <<":","/","/">>) THEN Https \o url
    ELSE url

\* the href of a bare URL and of a GitHub URL
BareHref(url) == IF startsWith(url, <<"h","t","t","p">>) THEN url ELSE Https \o url

\* the component of each pattern; a is the argument list of the call
\* component(match[0], ...match.slice(1), key), of which each component
\* renders its second parameter (the link its second and third)
component(name, a) ==
    CASE name = "code"      -> Frag("Code", a[2], <<>>)
      [] name = "link"      -> Frag("Link", a[2], LinkHref(a[3]))
      [] name = "url"       -> Frag("Link", a[2], BareHref(a[2]))
      [] name = "github"    -> Frag("GitHubLink", a[2], BareHref(a[2]))
      [] name = "email"     -> Frag("Link", a[2], Mailto \o a[2])
      [] name = "bold"      -> Frag("Bold", a[2], <<>>)
      [] name = "italic"    -> Frag("Italic", a[2], <<>>)
      [] name = "strike"    -> Frag("Strike", a[2], <<>>)
      [] name = "highlight" -> Frag("Highlight", a[2], <<>>)

\* groups: the number of capture groups of the regex (the length of
\* match.slice(1))
patterns ==
    << [regex |-> CodeSpanRegex,     groups |-> 1, component |-> "code"],
       [regex |-> MarkdownLinkRegex, groups |-> 2, component |-> "link"],
       [regex |-> UrlRegex,          groups |-> 0, component |-> "url"],
       [regex |-> GitHubRegex,       groups |-> 0, component |-> "github"],
       [regex |-> EmailRegex,        groups |-> 0, component |-> "email"],
       [regex |-> BoldRegex,         groups |-> 1, component |-> "bold"],
       [regex |-> ItalicRegex,       groups |-> 1, component |-> "italic"],
       [regex |-> StrikeRegex,       groups |-> 1, component |-> "strike"],
       [regex |-> HighlightRegex,    groups |-> 1, component |-> "highlight"] >>

ElemKey(n) == <<"e","l","e","m","-">> \o DecimalOf(n)

\* the while loop over newRegex.exec(result) of one pattern: st holds parts,
\* lastIndex, the lastIndex of the regex and elementIndex
RECURSIVE ExecLoop(_, _, _)
\* LoopBody with a regex whose lastIndex stays where it was
LoopBodyNoAdvance(p, result, st, m) ==
    LET textBefore == IF m.index > st.lastIndex
                      THEN <<Text(Slice(result, st.lastIndex, m.index))>> ELSE <<>>
        args == <<Slice(result, m.index, m.end)>>
                \o [n \in 1..p.groups |-> Cap(result, m, n)]
                \o <<ElemKey(st.elementIndex)>>
    IN [parts |-> st.parts \o textBefore \o <<component(p.component, args)>>,
        lastIndex |-> m.end,
        regexLastIndex |-> st.regexLastIndex,
        elementIndex |-> st.elementIndex + 1]

\* the body of the loop, m: the match that newRegex.exec(result) returned
LoopBody(p, result, st, m) ==
    LET textBefore == IF m.index > st.lastIndex
                      THEN <<Text(Slice(result, st.lastIndex, m.index))>> ELSE <<>>
        args == <<Slice(result, m.index, m.end)>>
                \o [n \in 1..p.groups |-> Cap(result, m, n)]
                \o <<ElemKey(st.elementIndex)>>
    IN [parts |-> st.parts \o textBefore \o <<component(p.component, args)>>,
        lastIndex |-> m.end,
        regexLastIndex |-> IF m.index = m.end THEN m.end + 1 ELSE m.end,
        elementIndex |-> st.elementIndex + 1]

\* one turn of the loop, m: the result of newRegex.exec(result)
ExecTurn(p, result, st, m) ==
    IF ~m.ok THEN st ELSE ExecLoop(p, result, LoopBody(p, result, st, m))

ExecLoop(p, result, st) == ExecTurn(p, result, st, exec(p.regex, result, st.regexLastIndex))

\* one iteration of patterns.forEach: r holds result (a string while
\* isString, else the array parts) and elementIndex
\* AfterLoop without the text that follows the last match
AfterLoopNoRemaining(r, st) ==
    IF Len(st.parts) > 0
    THEN [isString |-> FALSE, str |-> r.str, parts |-> st.parts, elementIndex |-> st.elementIndex]
    ELSE [r EXCEPT !.elementIndex = st.elementIndex]

\* after the loop of one pattern, st: what the loop left
AfterLoop(r, st) ==
    LET parts == IF st.lastIndex < Len(r.str) + 1
                 THEN st.parts \o <<Text(Slice(r.str, st.lastIndex, Len(r.str) + 1))>>
                 ELSE st.parts
    IN IF Len(parts) > 0
       THEN [isString |-> FALSE, str |-> r.str, parts |-> parts, elementIndex |-> st.elementIndex]
       ELSE [r EXCEPT !.elementIndex = st.elementIndex]

PatternPass(p, r) ==
    IF ~r.isString THEN r
    ELSE AfterLoop(r, ExecLoop(p, r.str, [parts |-> <<>>, lastIndex |-> 1,
                                          regexLastIndex |-> 1, elementIndex |-> r.elementIndex]))

RECURSIVE ForEachPattern(_, _, _)
ForEachPattern(ps, n, r) ==
    IF n > Len(ps) THEN r ELSE ForEachPattern(ps, n + 1, PatternPass(ps[n], r))

\* return Array.isArray(result) ? result : [result]
ResultArray(r) == IF r.isString THEN <<Text(r.str)>> ELSE r.parts

formatText(str) ==
    ResultArray(ForEachPattern(patterns, 1,
                    [isString |-> TRUE, str |-> str, parts |-> <<>>, elementIndex |-> 0]))

\* formatInlineText(text): the fragments; the '' returned for an empty text
\* is the empty sequence
formatInlineText(text) == IF text = <<>> THEN <<>> ELSE formatText(text)

----------------------------------------------------------------------------
(* CalloutBox.detectType *)

WARNING_SIGN == <<"U+26A0", "U+FE0F">>
EXCLAMATION  == <<"U+2757">>
CROSS_MARK   == <<"U+274C">>
NO_ENTRY     == <<"U+D83D", "U+DEAB">>
CHECK_MARK   == <<"U+2705">>
HEAVY_CHECK  == <<"U+2714", "U+FE0F">>
LIGHT_BULB   == <<"U+D83D", "U+DCA1">>
MAGNIFIER    == <<"U+D83D", "U+DD0D">>
FIRE         == <<"U+D83D", "U+DD25">>
HIGH_VOLTAGE == <<"U+26A1">>

\* detectType with the error entry tested before the warning entry
detectTypeErrorFirst(emoji, title, contentProp) ==
    LET emojiStr == emoji
        titleStr == toLowerCase(title)
        contentStr == toLowerCase(contentProp)
    IN
    IF includes(emojiStr, CROSS_MARK) \/ includes(emojiStr, NO_ENTRY)
       \/ includes(titleStr, <<"e","r","r","o","r">>)
       \/ includes(contentStr, <<"e","r","r","o","r">>) THEN "error"
    ELSE IF includes(emojiStr, WARNING_SIGN) \/ includes(emojiStr, EXCLAMATION)
       \/ includes(titleStr, <<"w","a","r","n","i","n","g">>)
       \/ includes(contentStr, <<"w","a","r","n","i","n","g">>) THEN "warning"
    ELSE IF includes(emojiStr, CHECK_MARK) \/ includes(emojiStr, HEAVY_CHECK)
       \/ includes(titleStr, <<"s","u","c","c","e","s","s">>)
       \/ includes(contentStr, <<"s","u","c","c","e","s","s">>) THEN "success"
    ELSE IF includes(emojiStr, LIGHT_BULB) \/ includes(emojiStr, MAGNIFIER)
       \/ includes(titleStr, <<"t","i","p">>)
       \/ includes(titleStr, <<"n","o","t","e">>) THEN "tip"
    ELSE IF includes(emojiStr, FIRE) \/ includes(emojiStr, HIGH_VOLTAGE)
       \/ includes(titleStr, <<"p","e","r","f","o","r","m","a","n","c","e">>)
       \/ includes(titleStr, <<"s","p","e","e","d">>) THEN "performance"
    ELSE IF includes(titleStr, <<"a","n","a","l","y","s","i","s">>)
       \/ includes(titleStr, <<"r","e","s","u","l","t">>) THEN "info"
    ELSE "info"

\* emoji, title, content: the props of the CalloutBox
detectType(emoji, title, contentProp) ==
    LET emojiStr == emoji
        titleStr == toLowerCase(title)
        contentStr == toLowerCase(contentProp)
    IN
    IF includes(emojiStr, WARNING_SIGN) \/ includes(emojiStr, EXCLAMATION)
       \/ includes(titleStr, <<"w","a","r","n","i","n","g">>)
       \/ includes(contentStr, <<"w","a","r","n","i","n","g">>) THEN "warning"
    ELSE IF includes(emojiStr, CROSS_MARK) \/ includes(emojiStr, NO_ENTRY)
       \/ includes(titleStr, <<"e","r","r","o","r">>)
       \/ includes(contentStr, <<"e","r","r","o","r">>) THEN "error"
    ELSE IF includes(emojiStr, CHECK_MARK) \/ includes(emojiStr, HEAVY_CHECK)
       \/ includes(titleStr, <<"s","u","c","c","e","s","s">>)
       \/ includes(contentStr, <<"s","u","c","c","e","s","s">>) THEN "success"
    ELSE IF includes(emojiStr, LIGHT_BULB) \/ includes(emojiStr, MAGNIFIER)
       \/ includes(titleStr, <<"t","i","p">>)
       \/ includes(titleStr, <<"n","o","t","e">>) THEN "tip"
    ELSE IF includes(emojiStr, FIRE) \/ includes(emojiStr, HIGH_VOLTAGE)
       \/ includes(titleStr, <<"p","e","r","f","o","r","m","a","n","c","e">>)
       \/ includes(titleStr, <<"s","p","e","e","d">>) THEN "performance"
    ELSE IF includes(titleStr, <<"a","n","a","l","y","s","i","s">>)
       \/ includes(titleStr, <<"r","e","s","u","l","t">>) THEN "info"
    ELSE "info"

\* <CalloutBox emoji title content />: the category and what is rendered
\* ({title && ...}, {content && ...})
CalloutBox(emoji, title, contentProp) ==
    [kind |-> "Callout", emoji |-> emoji, title |-> title, content |-> contentProp,
     type |-> detectType(emoji, title, contentProp),
     titleFragments |-> formatInlineText(title),
     contentFragments |-> formatInlineText(contentProp)]

\* <QuoteBlock content author />; hasAuthor: the author prop was passed
QuoteBlock(contentProp, hasAuthor, author) ==
    [kind |-> "Quote", content |-> contentProp, hasAuthor |-> hasAuthor,
     author |-> author, fragments |-> formatInlineText(contentProp)]

\* <CodeBlock code language />
CodeBlock(code, language) == [kind |-> "CodeBlock", code |-> code, language |-> language]

\* <div>{formatInlineText(text)}</div>
TextDiv(kind, text) == [kind |-> kind, text |-> text, fragments |-> formatInlineText(text)]

----------------------------------------------------------------------------
(* formatMessageContent: the patterns of the block rules *)

FENCE == <<BACKTICK, BACKTICK, BACKTICK>>

\* /\n\s*\n+/
SectionSplitRegex == Cat(<<Lit1(NL), Star(In(WhiteSpace)), Plus(Lit1(NL))>>)

\* /BTBTBT(\w*)\n?([\s\S]*?)BTBTBT/g  (BT: the backtick)
codeBlockRegex ==
    Cat(<<Lit(FENCE), Group(1, Star(In(WordChar))), Opt(Lit1(NL)),
          Group(2, StarLazy(AnyChar)), Lit(FENCE)>>)

\* /^>\s*/
QuoteMarkerRegex == Cat(<<Bol(FALSE), Lit1(">"), Star(In(WhiteSpace))>>)

\* /^(.*?)\s*[em dash]\s*(.+)$/s
AuthorRegex ==
    Cat(<<Bol(FALSE), Group(1, StarLazy(AnyChar)), Star(In(WhiteSpace)), Lit1(EMDASH),
          Star(In(WhiteSpace)), Group(2, Plus(AnyChar)), Eol(FALSE)>>)

\* /^([^\s\w]*)\s*\*\*(.*?)\*\*\s*([\s\S]*)/
CalloutRegex ==
    Cat(<<Bol(FALSE), Group(1, Star(NotIn(WhiteSpace \cup WordChar))), Star(In(WhiteSpace)),
          Lit(<<"*","*">>), Group(2, StarLazy(Dot)), Lit(<<"*","*">>),
          Star(In(WhiteSpace)), Group(3, Star(AnyChar))>>)

BulletMarker == In({BULLET, "*", "-"})

\* /^[\s]*[[bullet]*-]\s/m
BulletTestRegex == Cat(<<Bol(TRUE), Star(In(WhiteSpace)), BulletMarker, In(WhiteSpace)>>)

\* /^(\s*)[[bullet]*-]\s(.+)$/
BulletItemRegex ==
    Cat(<<Bol(FALSE), Group(1, Star(In(WhiteSpace))), BulletMarker, In(WhiteSpace),
          Group(2, Plus(Dot)), Eol(FALSE)>>)

\* /^\d+\.\s/m
NumberedTestRegex == Cat(<<Bol(TRUE), Plus(In(Digit)), Lit1("."), In(WhiteSpace)>>)

\* /^\d+\.\s(.+)$/
NumberedItemRegex ==
    Cat(<<Bol(FALSE), Plus(In(Digit)), Lit1("."), In(WhiteSpace),
          Group(1, Plus(Dot)), Eol(FALSE)>>)

\* /^(#{1,6})\s(.+)$/m
HeaderRegex ==
    Cat(<<Bol(TRUE), Group(1, Rep(Lit1("#"), 1, 6, TRUE)), In(WhiteSpace),
          Group(2, Plus(Dot)), Eol(TRUE)>>)

\* /^---+$/
RuleRegex == Cat(<<Bol(FALSE), Lit(<<"-","-">>), Plus(Lit1("-")), Eol(FALSE)>>)

\* s.split(regex) from position p, where the current piece starts: the
\* piece ends at the first position where the regex matches (an empty match
\* at p excepted)
RECURSIVE SplitRegex(_, _, _)
EndsPast(r, p) == r.ok /\ r.pos /= p

\* seps: the positions where a separator starts
SplitAt(s, regex, p, seps) ==
    IF seps = {} THEN <<Slice(s, p, Len(s) + 1)>>
    ELSE <<Slice(s, p, Min(seps))>>
         \o SplitRegex(s, regex, Run(<<regex>>, s, Min(seps), NoCaps).pos)

SplitRegex(s, regex, p) ==
    SplitAt(s, regex, p, {q \in p..Len(s) : EndsPast(Run(<<regex>>, s, q, NoCaps), p)})

\* s.replace(regex, '') for a regex without the g flag
Without(s, m) == IF m.ok THEN Slice(s, 1, m.index) \o Slice(s, m.end, Len(s) + 1) ELSE s

replaceFirst(s, regex) == Without(s, match(s, regex))

\* s.split('\n').filter(line => line.trim())
NonBlank(ls) == FilterIdx(ls, {i \in 1..Len(ls) : trim(ls[i]) /= <<>>})

NonEmptyLines(s) == NonBlank(split(s, NL))

----------------------------------------------------------------------------
(* formatMessageContent: the block rules, in the order of the code *)

\* rule 1: the loop over codeBlockRegex.exec(trimmedSection)
RECURSIVE CodeFenceLoop(_, _, _, _)
\* CodeFenceTurn passing the language as matched, without the default
CodeFenceTurnNoDefault(trimmedSection, parts, lastIndex, m) ==
    IF ~m.ok THEN [parts |-> parts, lastIndex |-> lastIndex]
    ELSE
    LET textBefore == IF m.index > lastIndex
                      THEN trim(Slice(trimmedSection, lastIndex, m.index)) ELSE <<>>
    IN CodeFenceLoop(trimmedSection,
            parts \o (IF textBefore /= <<>> THEN <<TextDiv("Text", textBefore)>> ELSE <<>>)
                  \o <<CodeBlock(trim(Cap(trimmedSection, m, 2)), Cap(trimmedSection, m, 1))>>,
            m.end, m.end)

\* one turn of the loop, m: the result of codeBlockRegex.exec
CodeFenceTurn(trimmedSection, parts, lastIndex, m) ==
    IF ~m.ok THEN [parts |-> parts, lastIndex |-> lastIndex]
    ELSE
    LET textBefore == IF m.index > lastIndex
                      THEN trim(Slice(trimmedSection, lastIndex, m.index)) ELSE <<>>
        language == Cap(trimmedSection, m, 1)
        code == Cap(trimmedSection, m, 2)
    IN CodeFenceLoop(trimmedSection,
            parts \o (IF textBefore /= <<>> THEN <<TextDiv("Text", textBefore)>> ELSE <<>>)
                  \o <<CodeBlock(trim(code),
                                 IF language /= <<>> THEN language ELSE <<"t","e","x","t">>)>>,
            m.end, m.end)

CodeFenceLoop(trimmedSection, parts, lastIndex, regexLastIndex) ==
    CodeFenceTurn(trimmedSection, parts, lastIndex,
                  exec(codeBlockRegex, trimmedSection, regexLastIndex))

\* after the loop, r: the parts and lastIndex it left
\* RemainingText without the text that follows the last fenced block
RemainingTextDropped(trimmedSection, r) == [kind |-> "CodeFence", parts |-> r.parts]

RemainingText(trimmedSection, r) ==
    LET remainingText == IF r.lastIndex < Len(trimmedSection) + 1
                         THEN trim(Slice(trimmedSection, r.lastIndex, Len(trimmedSection) + 1))
                         ELSE <<>>
    IN [kind |-> "CodeFence",
        parts |-> r.parts \o (IF remainingText /= <<>>
                              THEN <<TextDiv("Text", remainingText)>> ELSE <<>>)]

CodeFenceRule(trimmedSection) ==
    RemainingText(trimmedSection, CodeFenceLoop(trimmedSection, <<>>, 1, 1))

\* rule 2
quoteContent(trimmedSection) ==
    LET ls == split(trimmedSection, NL)
        kept == FilterIdx(ls, {i \in 1..Len(ls) : startsWith(trim(ls[i]), <<">">>)})
    IN join([i \in 1..Len(kept) |-> replaceFirst(kept[i], QuoteMarkerRegex)], <<NL>>)

QuoteOf(quote, authorMatch) ==
    IF authorMatch.ok
    THEN QuoteBlock(trim(Cap(quote, authorMatch, 1)), TRUE,
                    trim(Cap(quote, authorMatch, 2)))
    ELSE QuoteBlock(quote, FALSE, <<>>)

QuoteWith(quote) == QuoteOf(quote, match(quote, AuthorRegex))

QuoteRule(trimmedSection) == QuoteWith(quoteContent(trimmedSection))

\* rule 3
CalloutOf(trimmedSection, calloutMatch) ==
    CalloutBox(Cap(trimmedSection, calloutMatch, 1),
               Cap(trimmedSection, calloutMatch, 2),
               trim(Cap(trimmedSection, calloutMatch, 3)))

CalloutRule(trimmedSection) ==
    CalloutOf(trimmedSection, match(trimmedSection, CalloutRegex))

\* the lines of a list that are items, in order
ListItems(listItems) ==
    FilterIdx(listItems, {i \in 1..Len(listItems) : listItems[i].isItem})

\* BulletItem with the whole indentation as the level
BulletItemLevelIsIndent(line, index, m) ==
    IF m.ok
    THEN [isItem |-> TRUE, index |-> index,
          level |-> Len(Cap(line, m, 1)),
          text |-> Cap(line, m, 2),
          fragments |-> formatInlineText(Cap(line, m, 2))]
    ELSE [isItem |-> FALSE]

\* rule 4; index: the position of the item's line among lines (the key)
BulletItem(line, index, m) ==
    IF m.ok
    THEN [isItem |-> TRUE, index |-> index,
          level |-> Len(Cap(line, m, 1)) \div 2,
          text |-> Cap(line, m, 2),
          fragments |-> formatInlineText(Cap(line, m, 2))]
    ELSE [isItem |-> FALSE]

BulletItems(lines) ==
    [i \in 1..Len(lines) |-> BulletItem(lines[i], i - 1, match(lines[i], BulletItemRegex))]

BulletListRule(trimmedSection) ==
    [kind |-> "BulletList", items |-> ListItems(BulletItems(NonEmptyLines(trimmedSection)))]

\* rule 5; number: the {index + 1} rendered in the item's badge
NumberedItem(line, index, m) ==
    IF m.ok
    THEN [isItem |-> TRUE, number |-> index + 1,
          text |-> Cap(line, m, 1),
          fragments |-> formatInlineText(Cap(line, m, 1))]
    ELSE [isItem |-> FALSE]

NumberedItems(lines) ==
    [i \in 1..Len(lines) |-> NumberedItem(lines[i], i - 1, match(lines[i], NumberedItemRegex))]

NumberedListRule(trimmedSection) ==
    [kind |-> "NumberedList", items |-> ListItems(NumberedItems(NonEmptyLines(trimmedSection)))]

\* cells.filter(cell => cell)
NonEmpty(cells) == FilterIdx(cells, {i \in 1..Len(cells) : cells[i] /= <<>>})

TrimAll(cells) == [i \in 1..Len(cells) |-> trim(cells[i])]

\* line.split('|').map(cell => cell.trim()).filter(cell => cell)
Cells(line) == NonEmpty(TrimAll(split(line, "|")))

CellNodes(cells) ==
    [i \in 1..Len(cells) |-> [text |-> cells[i], fragments |-> formatInlineText(cells[i])]]

\* TableOf with the second line kept as a row
TableOfKeepingSeparator(tableLines) ==
    [kind |-> "Table", headers |-> CellNodes(Cells(tableLines[1])),
     rows |-> [i \in 1..(Len(tableLines) - 1) |-> CellNodes(Cells(tableLines[i + 1]))]]

\* rule 6, for tableLines.length >= 3: tableLines[0] the headers,
\* tableLines.slice(2) the rows
TableOf(tableLines) ==
    [kind |-> "Table", headers |-> CellNodes(Cells(tableLines[1])),
     rows |-> [i \in 1..(Len(tableLines) - 2) |-> CellNodes(Cells(tableLines[i + 2]))]]

TableRule(trimmedSection) == TableOf(NonEmptyLines(trimmedSection))

\* rule 7
HeadingWith(trimmedSection, headerMatch) ==
    [kind |-> "Heading", level |-> Len(Cap(trimmedSection, headerMatch, 1)),
     text |-> Cap(trimmedSection, headerMatch, 2),
     fragments |-> formatInlineText(Cap(trimmedSection, headerMatch, 2))]

HeadingRule(trimmedSection) ==
    HeadingWith(trimmedSection, match(trimmedSection, HeaderRegex))

\* the conditions of the rules
HasFence(sec)     == includes(sec, FENCE)
IsQuote(sec)      == startsWith(sec, <<">">>)
IsCallout(sec)    == test(sec, CalloutRegex)
IsBulletList(sec) == test(sec, BulletTestRegex)
IsNumbered(sec)   == test(sec, NumberedTestRegex)
IsTable(sec)      == /\ includes(sec, <<"|">>) /\ includes(sec, <<"-","-","-">>)
                     /\ Len(NonEmptyLines(sec)) >= 3
IsHeading(sec)    == test(sec, HeaderRegex)
IsRule(sec)       == test(sec, RuleRegex)

\* FormatTrimmed with the numbered-list rule tried before the bullet-list rule
FormatTrimmedNumberedFirst(trimmedSection) ==
    IF trimmedSection = <<>> THEN [kind |-> "null"]
    ELSE IF HasFence(trimmedSection) THEN CodeFenceRule(trimmedSection)
    ELSE IF IsQuote(trimmedSection) THEN QuoteRule(trimmedSection)
    ELSE IF IsCallout(trimmedSection) THEN CalloutRule(trimmedSection)
    ELSE IF IsNumbered(trimmedSection) THEN NumberedListRule(trimmedSection)
    ELSE IF IsBulletList(trimmedSection) THEN BulletListRule(trimmedSection)
    ELSE IF IsTable(trimmedSection) THEN TableRule(trimmedSection)
    ELSE IF IsHeading(trimmedSection) THEN HeadingRule(trimmedSection)
    ELSE IF IsRule(trimmedSection) THEN [kind |-> "Rule"]
    ELSE TextDiv("Paragraph", trimmedSection)

\* the callback of sections.map, past the trim: the node of one section
FormatTrimmed(trimmedSection) ==
    IF trimmedSection = <<>> THEN [kind |-> "null"]
    ELSE IF HasFence(trimmedSection) THEN CodeFenceRule(trimmedSection)
    ELSE IF IsQuote(trimmedSection) THEN QuoteRule(trimmedSection)
    ELSE IF IsCallout(trimmedSection) THEN CalloutRule(trimmedSection)
    ELSE IF IsBulletList(trimmedSection) THEN BulletListRule(trimmedSection)
    ELSE IF IsNumbered(trimmedSection) THEN NumberedListRule(trimmedSection)
    ELSE IF IsTable(trimmedSection) THEN TableRule(trimmedSection)
    ELSE IF IsHeading(trimmedSection) THEN HeadingRule(trimmedSection)
    ELSE IF IsRule(trimmedSection) THEN [kind |-> "Rule"]
    ELSE TextDiv("Paragraph", trimmedSection)

\* the node of one section (null for a section that is empty once trimmed)
FormatSection(section) == FormatTrimmed(trim(section))

\* content.trim().split(/\n\s*\n+/)
Sections(text) == SplitRegex(trim(text), SectionSplitRegex, 1)

\* sections.map(...).filter(Boolean)
MapSections(sections) == [i \in 1..Len(sections) |-> FormatSection(sections[i])]

DropNulls(mapped) == FilterIdx(mapped, {i \in 1..Len(mapped) : mapped[i].kind /= "null"})

\* formatMessageContent(content): null, or the array of the sections' nodes
formatMessageContent(text) ==
    IF text = <<>> \/ trim(text) = <<>> THEN [isNull |-> TRUE, list |-> <<>>]
    ELSE [isNull |-> FALSE, list |-> DropNulls(MapSections(Sections(text)))]

----------------------------------------------------------------------------
(* The formatter as a state machine: a text arrives, and is rendered by    *)
(* MessageFormatter (formatMessageContent) or formatted inline             *)
(* (formatInlineText, exported on its own).                                *)

MaxLines == 3       \* pieces joined by a line break in one message
MaxSegments == 3    \* segments concatenated in one inline text

\* every way to put 1..n elements of pool in a row
Rows(pool, n) == UNION {[1..m -> pool] : m \in 1..n}

\* the messages made of up to MaxLines pieces of pool, one per line
MessagesOf(pool) == {join(ls, <<NL>>) : ls \in Rows(pool, MaxLines)}

RECURSIVE Concat(_)
Concat(a) == IF a = <<>> THEN <<>> ELSE a[1] \o Concat(Tail(a))

NoNodes == [isNull |-> TRUE, list |-> <<>>]

\* the locals of formatText before it is entered
NoScan == [result |-> [isString |-> TRUE, str |-> <<>>, parts |-> <<>>, elementIndex |-> 0],
           patternIndex |-> 0,
           st |-> [parts |-> <<>>, lastIndex |-> 1, regexLastIndex |-> 1, elementIndex |-> 0]]

\* null, where a repository or a timer is expected
null == 0

\* const [activeRepo, setActiveRepo] = useState(null) and the other useState
\* calls of MainLayout; repositories holds the ids of the three mock entries
MainLayout == [activeRepo |-> null, currentScreen |-> "welcome",
               repositories |-> <<1, 2, 3>>]

\* no ChatScreen is mounted
NoChat == [mounted |-> FALSE]

\* no RepositorySetupScreen is mounted
NoSetup == [mounted |-> FALSE]

\* useState(null), where a string is stored later
NoError == "null"

\* the useState calls of the sidebar, before its mount effect has run
EnhancedSidebar == [repositories |-> <<>>, loading |-> TRUE, error |-> NoError,
                    graphStates |-> << >>, loadingStates |-> << >>]

InitWith(texts) ==
    /\ content \in texts
    /\ pc = "new"
    /\ nodes = NoNodes
    /\ fragments = <<>>
    /\ scan = NoScan
    /\ isExpanded = FALSE
    /\ layout = MainLayout
    /\ chat = NoChat
    /\ net = {}
    /\ setup = NoSetup
    /\ sidebar = EnhancedSidebar

\* <MessageFormatter content={content} />
Render ==
    /\ pc = "new"
    /\ nodes' = formatMessageContent(content)
    /\ pc' = "message"
    /\ UNCHANGED <<content, fragments, scan, isExpanded, ui>>

\* formatInlineText(content)
Inline ==
    /\ pc = "new"
    /\ fragments' = formatInlineText(content)
    /\ pc' = "inline"
    /\ UNCHANGED <<content, nodes, scan, isExpanded, ui>>

Next == Render \/ Inline

\* pieces of every block kind
BlockPieces ==
    { <<">","q">>, <<"-"," ","a">>, <<"1","."," ","b">>, <<"#"," ","h">>,
      <<"-","-","-">>, <<"a","|","b">>, <<"*","*","t","*","*"," ","c">>,
      FENCE, <<"p">>, <<>> }

Init == InitWith(MessagesOf(BlockPieces))
Spec == Init /\ [][Next]_vars

----------------------------------------------------------------------------
(* Block classification *)

\* the kinds of block, highest priority first
KindOrder ==
    <<"CodeFence", "Quote", "Callout", "BulletList", "NumberedList", "Table",
      "Heading", "Rule", "Paragraph">>

\* the rule of a kind applies to a block
Applies(kind, sec) ==
    CASE kind = "CodeFence"    -> HasFence(sec)
      [] kind = "Quote"        -> IsQuote(sec)
      [] kind = "Callout"      -> IsCallout(sec)
      [] kind = "BulletList"   -> IsBulletList(sec)
      [] kind = "NumberedList" -> IsNumbered(sec)
      [] kind = "Table"        -> IsTable(sec)
      [] kind = "Heading"      -> IsHeading(sec)
      [] kind = "Rule"         -> IsRule(sec)
      [] kind = "Paragraph"    -> TRUE

ApplicableKinds(sec) == {j \in 1..Len(KindOrder) : Applies(KindOrder[j], sec)}

FirstKind(sec) == KindOrder[Min(ApplicableKinds(sec))]

\* the non-empty top-level blocks of a message, trimmed, in order
Blocks(text) == NonEmpty(TrimAll(Sections(text)))

Rendered == pc = "message" /\ ~nodes.isNull

\* C1: every non-empty top-level block of a rendered message has one node,
\* in order, and the kind of the node is the first kind of KindOrder whose
\* rule applies to the block (Paragraph when no rule applies).
C1_FirstApplicableKind ==
    Rendered =>
        /\ Len(nodes.list) = Len(Blocks(content))
        /\ \A i \in 1..Len(nodes.list) :
                nodes.list[i].kind = FirstKind(Blocks(content)[i])

\* a block to which the rules of two kinds above Paragraph apply
C1_Witness ==
    /\ Rendered
    /\ \E i \in 1..Len(nodes.list) :
            /\ Cardinality(ApplicableKinds(Blocks(content)[i])) >= 3
            /\ nodes.list[i].kind = FirstKind(Blocks(content)[i])

----------------------------------------------------------------------------
(* Inline formatting *)

BoldAndItalic == <<"*","*","b","o","l","d","*","*"," ","a","n","d"," ","*","i","t","a","l","i","c","*">>

ClickLink == <<"[","c","l","i","c","k","]","(","e","x","a","m","p","l","e",".","c","o","m",")">>

InlineSegments ==
    { <<"*","*","b","o","l","d","*","*">>, <<" ","a","n","d"," ">>, <<"*","i","t","a","l","i","c","*">>,
      <<BACKTICK, "c", BACKTICK>>, <<"x">>,
      ClickLink,
      <<"[","a","]","(","/","p",")">>,
      <<"[","w","]","(","w","w","w",".","b",".","c",")">>,
      <<"[","h","]","(","h","t","t","p",":","/","/","b",".","c",")">> }

\* the texts made of up to MaxSegments segments
InlineTexts == {Concat(segs) : segs \in Rows(InlineSegments, MaxSegments)}

InitInline == InitWith(InlineTexts)
SpecInline == InitInline /\ [][Next]_vars

Formatted == pc = "inline"

HasKind(frags, kind) == \E i \in 1..Len(frags) : frags[i].kind = kind

NoCodeSpan(text) == ~includes(text, <<BACKTICK>>)

\* C2, as claimed: "**bold** and *italic*" is formatted as Bold("bold"),
\* Text(" and "), Italic("italic"), and a text with no code span has a Bold
\* fragment where it has a **x** pair and an Italic fragment where it has a
\* *y* pair.
C2_BoldItalicFragments ==
    Formatted =>
        /\ content = BoldAndItalic =>
                fragments = << Frag("Bold", <<"b","o","l","d">>, <<>>), Text(<<" ","a","n","d"," ">>),
                               Frag("Italic", <<"i","t","a","l","i","c">>, <<>>) >>
        /\ (NoCodeSpan(content) /\ test(content, BoldRegex)) => HasKind(fragments, "Bold")
        /\ (NoCodeSpan(content) /\ test(content, ItalicRegex)) => HasKind(fragments, "Italic")

\* the href the claim gives a markdown link
ClaimedHref(url) ==
    IF startsWith(url, Http) \/ startsWith(url, Https) THEN url
    ELSE IF startsWith(url, <<"w","w","w",".">>) THEN Https \o url
    ELSE IF startsWith(url, <<"/">>) THEN url
    ELSE IF ~includes(url, <<":","/","/">>) THEN Https \o url
    ELSE url

HasLink(frags, text, href) ==
    \E i \in 1..Len(frags) : frags[i] = Frag("Link", text, href)

\* m: the first markdown link of the text
FirstLinkEmitted(text, frags, m) ==
    m.ok => HasLink(frags, Cap(text, m, 1), ClaimedHref(Cap(text, m, 2)))

\* C3, as claimed: "[click](example.com)" is formatted as a Link with href
\* "https://example.com", and the first markdown link [text](url) of a text
\* with no code span is emitted as a Link fragment whose href is the url
\* normalised.
C3_MarkdownLinkHref ==
    Formatted =>
        /\ content = ClickLink =>
                fragments = << Frag("Link", <<"c","l","i","c","k">>, <<"h","t","t","p","s",":","/","/","e","x","a","m","p","l","e",".","c","o","m">>) >>
        /\ NoCodeSpan(content) =>
                FirstLinkEmitted(content, fragments, match(content, MarkdownLinkRegex))

----------------------------------------------------------------------------
(* Code fences *)

JsFence == <<"U+0060","U+0060","U+0060","j","s","\n","c","o","n","s","t"," ","x"," ","="," ","1",";","\n","U+0060","U+0060","U+0060">>

FencePieces ==
    { FENCE \o <<"j","s">>, FENCE, <<"c","o","n","s","t"," ","x"," ","="," ","1",";">>, <<>>, <<"*","*","b","*","*">>,
      <<"a","\n","\n","*","*","b","*","*">>, <<" ","y"," ","U+0060","U+0060","U+0060">> }

InitFence == InitWith(MessagesOf(FencePieces))
SpecFence == InitFence /\ [][Next]_vars

\* a text that is one terminated fence: it opens with a fence and the only
\* fence after the opening one is the one that ends it
OneFence(sec) ==
    /\ Len(sec) >= 2 * Len(FENCE)
    /\ startsWith(sec, FENCE)
    /\ {i \in (Len(FENCE) + 1)..Len(sec) : IncludesAt(sec, FENCE, i)}
            = {Len(sec) - Len(FENCE) + 1}

\* the text between the fences
Between(sec) == SubSeq(sec, Len(FENCE) + 1, Len(sec) - Len(FENCE))

\* the word characters a text starts with
WordLen(s) == Max({n \in 0..Len(s) : \A j \in 1..n : s[j] \in WordChar})
FirstWord(s) == SubSeq(s, 1, WordLen(s))
AfterWord(s) == SubSeq(s, WordLen(s) + 1, Len(s))

TextLanguage == <<"t","e","x","t">>

OneCodeBlock(code, language) ==
    [kind |-> "CodeFence", parts |-> <<CodeBlock(code, language)>>]

\* C4, amended: a block that is one terminated fence gives one CodeBlock
\* whose language is the word right after the opening fence, or "text" when
\* no word follows it, and whose content is the rest of the text between the
\* fences, trimmed.
C4_OneFenceOneCodeBlock ==
    Rendered =>
        \A i \in 1..Len(nodes.list) :
            OneFence(Blocks(content)[i]) =>
                nodes.list[i] =
                    OneCodeBlock(trim(AfterWord(Between(Blocks(content)[i]))),
                                 IF FirstWord(Between(Blocks(content)[i])) = <<>>
                                 THEN TextLanguage
                                 ELSE FirstWord(Between(Blocks(content)[i])))

\* C4, as claimed: the language is the first word after the opening fence,
\* or empty when no word follows it.
C4_LanguageOrEmpty ==
    Rendered =>
        \A i \in 1..Len(nodes.list) :
            OneFence(Blocks(content)[i]) =>
                nodes.list[i] =
                    OneCodeBlock(trim(AfterWord(Between(Blocks(content)[i]))),
                                 FirstWord(Between(Blocks(content)[i])))

\* a fence with no language around some code
C4_Witness ==
    /\ Rendered
    /\ OneFence(trim(content))
    /\ FirstWord(Between(trim(content))) = <<>>
    /\ trim(Between(trim(content))) /= <<>>
    /\ nodes.list = <<OneCodeBlock(trim(Between(trim(content))), TextLanguage)>>

AllCodeBlocks(node) ==
    /\ node.kind = "CodeFence"
    /\ \A j \in 1..Len(node.parts) : node.parts[j].kind = "CodeBlock"

\* C5, as claimed: of a message that is one terminated fence, nothing is
\* passed to the inline formatter: the message is rendered as one CodeBlock
\* holding the text between the fences.
C5_FenceNeverInline ==
    (Rendered /\ OneFence(trim(content))) =>
        /\ \A i \in 1..Len(nodes.list) : AllCodeBlocks(nodes.list[i])
        /\ Len(nodes.list) = 1
        /\ Len(nodes.list[1].parts) = 1
        /\ nodes.list[1].parts[1].code = trim(AfterWord(Between(trim(content))))

----------------------------------------------------------------------------
(* Lists *)

ListPieces ==
    { <<"-"," ","a">>, <<"-"," ","b">>, <<" "," ","-"," ","c">>, <<"-"," ">>, <<"x">>,
      <<"1","."," ","a">>, <<"7","."," ","b">>, <<" "," "," ",BULLET," ","d">> }

InitList == InitWith(MessagesOf(ListPieces))
SpecList == InitList /\ [][Next]_vars

\* the whitespace a line starts with
Indent(l) == Max({n \in 0..Len(l) : \A j \in 1..n : l[j] \in WhiteSpace})

\* the line has a bullet marker and a whitespace after its indentation
MarkerLine(l) ==
    /\ Len(l) >= Indent(l) + 2
    /\ l[Indent(l) + 1] \in {BULLET, "*", "-"}
    /\ l[Indent(l) + 2] \in WhiteSpace

\* what follows the marker and its whitespace
AfterMarker(l) == SubSeq(l, Indent(l) + 3, Len(l))

\* a marker line with some text after the marker
TextLine(l) ==
    /\ MarkerLine(l)
    /\ AfterMarker(l) /= <<>>
    /\ \A j \in 1..Len(AfterMarker(l)) : AfterMarker(l)[j] \notin LineTerminator

\* text and level of the items of a list node, in order
TextAndLevel(items) == [j \in 1..Len(items) |-> <<items[j].text, items[j].level>>]

\* text and level expected of the lines
ExpectedOf(ls) == [j \in 1..Len(ls) |-> <<AfterMarker(ls[j]), Indent(ls[j]) \div 2>>]

MarkerLines(ls) == FilterIdx(ls, {j \in 1..Len(ls) : MarkerLine(ls[j])})
TextLines(ls) == FilterIdx(ls, {j \in 1..Len(ls) : TextLine(ls[j])})

C7_NumberIsPosition ==
    Rendered =>
        \A i \in 1..Len(nodes.list) :
            nodes.list[i].kind = "NumberedList" =>
                \A j \in 1..Len(nodes.list[i].items) : nodes.list[i].items[j].number = j

----------------------------------------------------------------------------
(* Tables *)

HeaderLine == <<"|"," ","H","1"," ","|"," ","H","2"," ","|">>
SeparatorLine == <<"|","-","-","-","|","-","-","-","|">>
RowLine == <<"|"," ","a"," ","|"," ","b"," ","|">>

TablePieces ==
    { HeaderLine, SeparatorLine, RowLine, <<"#"," ","h">>, <<"x">>, <<"-","-","-">>,
      <<"a","|","|","b"," ">>, <<"c","|","d">> }

InitTable == InitWith(MessagesOf(TablePieces))
SpecTable == InitTable /\ [][Next]_vars

\* no rule above the table rule applies to the block
ReachesTableRule(sec) ==
    \A j \in 1..Len(KindOrder) :
        (KindOrder[j] \in {"CodeFence", "Quote", "Callout", "BulletList", "NumberedList"})
            => ~Applies(KindOrder[j], sec)

HasPipeAndDashes(sec) == includes(sec, <<"|">>) /\ includes(sec, <<"-","-","-">>)

\* the ends of the cells of a line: before it, its pipes, after it
Edges(l) == {0, Len(l) + 1} \cup {i \in 1..Len(l) : l[i] = "|"}

\* the text from the edge e to the next edge
CellAfter(l, e) == SubSeq(l, e + 1, Min({f \in Edges(l) : f > e}) - 1)

\* the edges followed by a cell that is not empty once trimmed
CellEdges(l) == {e \in Edges(l) : e <= Len(l) /\ trim(CellAfter(l, e)) /= <<>>}

\* the trimmed non-empty cells of a line, in order
TrimmedCells(l) ==
    [k \in 1..Cardinality(CellEdges(l)) |-> trim(CellAfter(l, Nth(CellEdges(l), k)))]

CellTexts(cells) == [k \in 1..Len(cells) |-> cells[k].text]

\* the node is the table of the lines ls: headers of line 1, a row per line
\* from line 3 on
IsTableOf(node, ls) ==
    /\ node.kind = "Table"
    /\ CellTexts(node.headers) = TrimmedCells(ls[1])
    /\ Len(node.rows) = Len(ls) - 2
    /\ \A r \in 1..Len(node.rows) : CellTexts(node.rows[r]) = TrimmedCells(ls[r + 2])

\* the node of a block that the table rule is reached with
TableOrBelow(node, sec) ==
    IF HasPipeAndDashes(sec) /\ Len(split(sec, NL)) >= 3
    THEN IsTableOf(node, split(sec, NL))
    ELSE node.kind \in {"Heading", "Rule", "Paragraph"} /\ node.kind = FirstKind(sec)

\* C8: a block that reaches the table rule, contains "|" and "---" and has
\* at least 3 lines is a Table: its headers are the trimmed non-empty cells
\* of line 1, line 2 is discarded, and each further line gives one row of its
\* trimmed non-empty cells; with fewer lines the block is a heading, a rule
\* or a paragraph, as the lower rules decide.
C8_TableRule ==
    Rendered =>
        \A i \in 1..Len(nodes.list) :
            ReachesTableRule(Blocks(content)[i]) =>
                TableOrBelow(nodes.list[i], Blocks(content)[i])

\* the table of the example: headers H1, H2 and one row a, b
C8_Witness ==
    /\ Rendered
    /\ content = HeaderLine \o <<NL>> \o SeparatorLine \o <<NL>> \o RowLine
    /\ Len(nodes.list) = 1
    /\ nodes.list[1].kind = "Table"
    /\ CellTexts(nodes.list[1].headers) = << <<"H","1">>, <<"H","2">> >>
    /\ Len(nodes.list[1].rows) = 1
    /\ CellTexts(nodes.list[1].rows[1]) = << <<"a">>, <<"b">> >>

----------------------------------------------------------------------------
(* Quotes *)

QuotePieces ==
    { <<">","a">>, <<">"," ","b">>, <<" ",">","c">>, <<"x">>, <<>>,
      <<">"," ","q"," ",EMDASH," ","m","e">> }

InitQuote == InitWith(MessagesOf(QuotePieces))
SpecQuote == InitQuote /\ [][Next]_vars

\* every non-empty line of the block starts with ">" once trimmed
AllQuoted(sec) ==
    \A j \in 1..Len(split(sec, NL)) :
        trim(split(sec, NL)[j]) /= <<>> => startsWith(trim(split(sec, NL)[j]), <<">">>)

DropIndent(l) == SubSeq(l, Indent(l) + 1, Len(l))

\* a quoted line without its marker and the whitespace around the marker
Unquoted(l) == DropIndent(Tail(DropIndent(l)))

UnquotedLines(ls) == [j \in 1..Len(ls) |-> Unquoted(ls[j])]

\* C9, as claimed: a block (with no fence in it) is a Quote exactly when
\* every non-empty line of it starts with ">" once trimmed, and the body of a
\* quote with no author is its lines without their markers, joined by line
\* breaks.
C9_QuoteExactlyWhenAllQuoted ==
    Rendered =>
        \A i \in 1..Len(nodes.list) :
            ~HasFence(Blocks(content)[i]) =>
                /\ (nodes.list[i].kind = "Quote") <=> AllQuoted(Blocks(content)[i])
                /\ (nodes.list[i].kind = "Quote" /\ ~nodes.list[i].hasAuthor) =>
                        nodes.list[i].content
                            = join(UnquotedLines(NonEmptyLines(Blocks(content)[i])), <<NL>>)

----------------------------------------------------------------------------
(* Callouts *)

PUSHPIN == <<"U+D83D", "U+DCCC">>

CalloutSymbols ==
    { <<>>, WARNING_SIGN, CROSS_MARK, CHECK_MARK, LIGHT_BULB, HIGH_VOLTAGE, PUSHPIN }

CalloutTitles ==
    { <<"N","o","t","e">>, <<"W","a","r","n","i","n","g">>, <<"E","r","r","o","r">>, <<"D","o","n","e">>, <<"S","p","e","e","d">>, <<"S","u","c","c","e","s","s">> }

CalloutBodies ==
    { <<"o","k">>, <<"a","n"," ","e","r","r","o","r">>, <<"W","A","R","N","I","N","G">>, <<"s","u","c","c","e","s","s">>, <<"a"," ","t","i","p">> }

\* symbol **title** body
CalloutText(symbol, title, body) ==
    symbol \o (IF symbol = <<>> THEN <<>> ELSE <<" ">>)
           \o <<"*","*">> \o title \o <<"*","*"," ">> \o body

CalloutTexts ==
    {CalloutText(s, ti, b) : s \in CalloutSymbols, ti \in CalloutTitles, b \in CalloutBodies}

InitCallout == InitWith(CalloutTexts)
SpecCallout == InitCallout /\ [][Next]_vars

\* the keyword table, in the order it is checked
KeywordTable ==
    << [type |-> "warning", symbols |-> {WARNING_SIGN, EXCLAMATION},
        titleWords |-> {<<"w","a","r","n","i","n","g">>}, contentWords |-> {<<"w","a","r","n","i","n","g">>}],
       [type |-> "error", symbols |-> {CROSS_MARK, NO_ENTRY},
        titleWords |-> {<<"e","r","r","o","r">>}, contentWords |-> {<<"e","r","r","o","r">>}],
       [type |-> "success", symbols |-> {CHECK_MARK, HEAVY_CHECK},
        titleWords |-> {<<"s","u","c","c","e","s","s">>}, contentWords |-> {<<"s","u","c","c","e","s","s">>}],
       [type |-> "tip", symbols |-> {LIGHT_BULB, MAGNIFIER},
        titleWords |-> {<<"t","i","p">>, <<"n","o","t","e">>}, contentWords |-> {}],
       [type |-> "performance", symbols |-> {FIRE, HIGH_VOLTAGE},
        titleWords |-> {<<"p","e","r","f","o","r","m","a","n","c","e">>, <<"s","p","e","e","d">>}, contentWords |-> {}] >>

SymbolOrTitleMatches(e, symbol, title) ==
    \/ \E s \in e.symbols : includes(symbol, s)
    \/ \E w \in e.titleWords : includes(toLowerCase(title), w)

BodyMatches(e, body) == \E w \in e.contentWords : includes(toLowerCase(body), w)

\* the type of the first entry of the table in rows, "info" when there is none
TypeOfFirst(rows) == IF rows = {} THEN "info" ELSE KeywordTable[Min(rows)].type

\* C10, amended: the category of a callout is the type of the first entry of
\* the keyword table (warning, error, success, tip, performance) whose symbol
\* is in the leading symbol, whose title word is in the title or, for
\* warning, error and success, whose word is in the content, whatever the
\* case of the letters; it is "info" when no entry matches.
C10_CalloutType ==
    Rendered =>
        \A i \in 1..Len(nodes.list) :
            nodes.list[i].kind = "Callout" =>
                nodes.list[i].type =
                    TypeOfFirst({j \in 1..Len(KeywordTable) :
                        \/ SymbolOrTitleMatches(KeywordTable[j], nodes.list[i].emoji,
                                                nodes.list[i].title)
                        \/ BodyMatches(KeywordTable[j], nodes.list[i].content)})

\* C10, as claimed: the category is decided by the leading symbol and the
\* title alone, and is "info" when neither matches an entry.
C10_SymbolAndTitleOnly ==
    Rendered =>
        \A i \in 1..Len(nodes.list) :
            nodes.list[i].kind = "Callout" =>
                nodes.list[i].type =
                    TypeOfFirst({j \in 1..Len(KeywordTable) :
                        SymbolOrTitleMatches(KeywordTable[j], nodes.list[i].emoji,
                                             nodes.list[i].title)})

\* a callout whose symbol and title match no entry and whose content does
C10_Witness ==
    /\ Rendered
    /\ Len(nodes.list) = 1
    /\ nodes.list[1].kind = "Callout"
    /\ nodes.list[1].emoji = PUSHPIN
    /\ nodes.list[1].title = <<"D","o","n","e">>
    /\ nodes.list[1].content = <<"a","n"," ","e","r","r","o","r">>
    /\ nodes.list[1].type = "error"

----------------------------------------------------------------------------
(* Headings *)

HeadingPieces ==
    { <<"#"," ","h">>, <<"#","#"," ","t">>, <<"#","#","#","#","#","#"," ","s">>,
      <<"#","#","#","#","#","#","#"," ","v">>, <<"#","h">>, <<"#">>, <<"x">>, <<>> }

InitHeading == InitWith(MessagesOf(HeadingPieces))
SpecHeading == InitHeading /\ [][Next]_vars

\* no rule before the heading rule takes the block
ReachesHeadingRule(sec) ==
    /\ ~HasFence(sec) /\ ~IsQuote(sec) /\ ~IsCallout(sec)
    /\ ~IsBulletList(sec) /\ ~IsNumbered(sec) /\ ~IsTable(sec)

FirstLine(sec) == split(sec, NL)[1]

\* the number of "#" a line starts with
Hashes(l) == Min({i \in 1..(Len(l) + 1) : i > Len(l) \/ l[i] /= "#"}) - 1

\* what follows the "#" and one whitespace character
HeadingText(l) == SubSeq(l, Hashes(l) + 2, Len(l))

\* 1 to 6 "#", whitespace, then a text that is not empty
IsHeadingLine(l) ==
    /\ Hashes(l) \in 1..6
    /\ Len(l) > Hashes(l) + 1
    /\ l[Hashes(l) + 1] \in WhiteSpace

\* C11: a block that reaches the heading rule is a Heading exactly when its
\* first line is 1 to 6 "#", whitespace and a non-empty text; the level is
\* the number of "#" and the heading text is the rest of that line
C11_HeadingOfFirstLine ==
    Rendered =>
        \A i \in 1..Len(Blocks(content)) :
            ReachesHeadingRule(Blocks(content)[i]) =>
                /\ nodes.list[i].kind = "Heading"
                       <=> IsHeadingLine(FirstLine(Blocks(content)[i]))
                /\ nodes.list[i].kind = "Heading" =>
                       /\ nodes.list[i].level = Hashes(FirstLine(Blocks(content)[i]))
                       /\ nodes.list[i].level \in 1..6
                       /\ nodes.list[i].text = HeadingText(FirstLine(Blocks(content)[i]))

----------------------------------------------------------------------------
(* formatText step by step: the callback of patterns.forEach and, inside   *)
(* it, the while loop over newRegex.exec(result).  scan.result is result,  *)
(* scan.patternIndex the index of the pattern whose turn it is, scan.st    *)
(* the locals of the loop.                                                 *)

MaxScanSegments == 2    \* segments concatenated in one scanned text

\* parts = [], lastIndex = 0, a new RegExp
FreshLoop(elementIndex) ==
    [parts |-> <<>>, lastIndex |-> 1, regexLastIndex |-> 1, elementIndex |-> elementIndex]

\* formatInlineText(content) is called: '' for an empty text, else
\* formatText(content) starts with result = str
FormatTextStart ==
    /\ pc = "new"
    /\ IF content = <<>>
       THEN /\ fragments' = <<>>
            /\ pc' = "inline"
            /\ UNCHANGED scan
       ELSE /\ scan' = [result |-> [isString |-> TRUE, str |-> content,
                                    parts |-> <<>>, elementIndex |-> 0],
                        patternIndex |-> 1,
                        st |-> FreshLoop(0)]
            /\ pc' = "forEach"
            /\ UNCHANGED fragments
    /\ UNCHANGED <<content, nodes, isExpanded, ui>>

\* PatternBegin entering the loop whatever result is
PatternBeginRescan ==
    /\ pc = "forEach"
    /\ scan.patternIndex <= Len(patterns)
    /\ scan' = [scan EXCEPT !.st = FreshLoop(scan.result.elementIndex)]
    /\ pc' = "while"
    /\ UNCHANGED <<content, nodes, fragments, isExpanded, ui>>

\* the callback of forEach is entered for the next pattern: the loop is set
\* up when result is a string, and the callback returns at once otherwise
PatternBegin ==
    /\ pc = "forEach"
    /\ scan.patternIndex <= Len(patterns)
    /\ IF scan.result.isString
       THEN /\ scan' = [scan EXCEPT !.st = FreshLoop(scan.result.elementIndex)]
            /\ pc' = "while"
       ELSE /\ scan' = [scan EXCEPT !.patternIndex = @ + 1]
            /\ pc' = "forEach"
    /\ UNCHANGED <<content, nodes, fragments, isExpanded, ui>>

\* m: what newRegex.exec(result) returns at the top of the loop
NextMatch == exec(patterns[scan.patternIndex].regex, scan.result.str, scan.st.regexLastIndex)

LoopTurnWith(m) ==
    /\ m.ok
    /\ scan' = [scan EXCEPT !.st = LoopBody(patterns[scan.patternIndex], scan.result.str, scan.st, m)]

\* exec returned a match: one turn of the loop
LoopTurn ==
    /\ pc = "while"
    /\ LoopTurnWith(NextMatch)
    /\ pc' = "while"
    /\ UNCHANGED <<content, nodes, fragments, isExpanded, ui>>

\* exec returned null: the remaining text is added, result becomes parts if
\* there are any, and the callback returns
LoopExit ==
    /\ pc = "while"
    /\ ~NextMatch.ok
    /\ scan' = [scan EXCEPT !.result = AfterLoop(scan.result, scan.st),
                            !.patternIndex = @ + 1]
    /\ pc' = "forEach"
    /\ UNCHANGED <<content, nodes, fragments, isExpanded, ui>>

\* past the last pattern: return Array.isArray(result) ? result : [result]
FormatTextReturn ==
    /\ pc = "forEach"
    /\ scan.patternIndex > Len(patterns)
    /\ fragments' = ResultArray(scan.result)
    /\ pc' = "inline"
    /\ UNCHANGED <<content, nodes, scan, isExpanded, ui>>

NextScan == FormatTextStart \/ PatternBegin \/ LoopTurn \/ LoopExit \/ FormatTextReturn

ScanSegments ==
    { <<"a">>, <<" ">>, <<BACKTICK, "c", BACKTICK>>, <<"x", BACKTICK, "d", BACKTICK, "y">>,
      <<"*","*","b","*","*">>, <<"*","i","*">>,
      <<BACKTICK, "*","*","b","*","*", BACKTICK>>, <<"[","t","]","(","/","u",")">> }

ScanTexts == {<<>>} \cup {Concat(segs) : segs \in Rows(ScanSegments, MaxScanSegments)}

InitScan == InitWith(ScanTexts)
SpecScan == InitScan /\ [][NextScan]_vars

\* a call runs to completion: JavaScript does not interleave it with
\* anything and every step that can be taken is taken
FairScan == SpecScan /\ WF_vars(NextScan)

\* the steps compute what formatInlineText computes
ScanIsFormatInlineText == Formatted => fragments = formatInlineText(content)

\* some fragment of frags is typed and holds text that the bold pattern matches
HoldsBoldSource(frags) ==
    \E i \in 1..Len(frags) : frags[i].kind /= "Text" /\ test(frags[i].value, BoldRegex)

\* C12: no character of the input belongs to two typed fragments: inside one
\* pattern pass every match starts at or after the end of the one before,
\* and once a pass has turned result into an array of fragments, no later
\* pattern runs its match loop and the fragments stay as they are
C12_NoRematch ==
    [][ /\ (pc = "while" /\ pc' = "while") =>
                /\ NextMatch.index >= scan.st.lastIndex
                /\ scan'.st.lastIndex = NextMatch.end
        /\ (pc = "forEach" /\ ~scan.result.isString) =>
                /\ pc' /= "while"
                /\ pc' = "forEach" => scan'.result = scan.result
                /\ pc' = "inline" => fragments' = scan.result.parts ]_vars

\* the bold pattern has its turn after a code span that holds "**b**" was
\* made a fragment
C12_Witness ==
    /\ pc = "forEach"
    /\ scan.patternIndex = 6
    /\ ~scan.result.isString
    /\ HasKind(scan.result.parts, "Code")
    /\ HoldsBoldSource(scan.result.parts)

\* pattern p makes fragment f of the whole of s, m: the first match of p in s
MakesOf(p, s, m, f) ==
    /\ m.ok
    /\ m.index = 1
    /\ m.end = Len(s) + 1
    /\ \E key \in 0..Len(s) :
            f = component(p.component, <<s>> \o [n \in 1..p.groups |-> Cap(s, m, n)]
                                       \o <<ElemKey(key)>>)

\* s is a source span of fragment f: the string itself for a text, a match
\* of some pattern for a typed fragment
Derives(s, f) ==
    \/ f = Text(s)
    \/ \E i \in 1..Len(patterns) : MakesOf(patterns[i], s, exec(patterns[i].regex, s, 1), f)

\* the fragments from the k-th on have contiguous source spans that start
\* at pos and end at the end of text
RECURSIVE Partition(_, _, _, _)
Partition(text, frags, k, pos) ==
    IF k > Len(frags) THEN pos = Len(text) + 1
    ELSE \E e \in (pos + 1)..(Len(text) + 1) :
            /\ Derives(Slice(text, pos, e), frags[k])
            /\ Partition(text, frags, k + 1, e)

\* C13: the fragments returned for a non-empty text partition it: their
\* source spans, in output order, are contiguous, do not overlap, start at
\* the first position and end at the length of the text
C13_FragmentsPartitionInput ==
    (Formatted /\ content /= <<>>) => Partition(content, fragments, 1, 1)

\* text before a match, two matches and text after the last one
C13_Witness ==
    /\ Formatted
    /\ Len(fragments) >= 4
    /\ fragments[1].kind = "Text"
    /\ fragments[Len(fragments)].kind = "Text"
    /\ \E i \in 1..Len(fragments) : fragments[i].kind /= "Text"

\* C19: every pattern pass ends: each match moves the scan position of the
\* regex forward, and the call reaches its return
C19_ScanAdvancesAndEnds ==
    /\ [][(pc = "while" /\ pc' = "while") =>
              /\ scan'.st.regexLastIndex > scan.st.regexLastIndex
              /\ scan'.st.regexLastIndex <= Len(content) + 1]_vars
    /\ <>(pc = "inline")

\* the call returned after a pass that found two matches
C19_Witness ==
    /\ Formatted
    /\ Cardinality({i \in 1..Len(fragments) : fragments[i].kind /= "Text"}) >= 2

----------------------------------------------------------------------------
(* Content kept by the block rules *)

ItemTexts(items) == Concat([i \in 1..Len(items) |-> items[i].text])

PartText(part) == IF part.kind = "CodeBlock" THEN part.language \o part.code ELSE part.text

\* all the text a node shows
NodeText(node) ==
    CASE node.kind = "CodeFence" -> Concat([i \in 1..Len(node.parts) |-> PartText(node.parts[i])])
      [] node.kind = "Quote" -> node.content \o (IF node.hasAuthor THEN node.author ELSE <<>>)
      [] node.kind = "Callout" -> node.emoji \o node.title \o node.content
      [] node.kind \in {"BulletList", "NumberedList"} -> ItemTexts(node.items)
      [] node.kind = "Table" ->
            ItemTexts(node.headers)
            \o Concat([i \in 1..Len(node.rows) |-> ItemTexts(node.rows[i])])
      [] node.kind \in {"Heading", "Paragraph"} -> node.text
      [] OTHER -> <<>>

ShownText(list) == Concat([i \in 1..Len(list) |-> NodeText(list[i])])

Count(c, s) == Cardinality({i \in 1..Len(s) : s[i] = c})

\* C14: every character of the message that is not part of a marker appears
\* in the text of some output node: every letter of the message is shown at
\* least as many times as the message has it
C14_NoContentDropped ==
    Rendered =>
        \A c \in LowerCase \cup UpperCase :
            Count(c, ShownText(nodes.list)) >= Count(c, content)

----------------------------------------------------------------------------
(* The try block of formatMessageContent and its catch *)

\* what the catch returns: one div with the raw content formatted inline
Fallback(text) == [isNull |-> FALSE, list |-> <<TextDiv("Fallback", text)>>]

\* the content passed the validation that precedes the try block
EntersTry == content /= <<>> /\ trim(content) /= <<>>

\* RenderCaught without the catch: the error leaves formatMessageContent
RenderRethrows ==
    /\ pc = "new"
    /\ EntersTry
    /\ pc' = "thrown"
    /\ UNCHANGED <<content, nodes, fragments, scan, isExpanded, ui>>

\* <MessageFormatter content={content} />, something raising inside the try
\* block: the catch logs the error and returns the fallback
RenderCaught ==
    /\ pc = "new"
    /\ EntersTry
    /\ nodes' = Fallback(content)
    /\ pc' = "caught"
    /\ UNCHANGED <<content, fragments, scan, isExpanded, ui>>

NextFaulty == Render \/ RenderCaught

SpecFaulty == Init /\ [][NextFaulty]_vars

----------------------------------------------------------------------------
(* Malformed markup *)

MalformedPieces ==
    { FENCE \o <<"j","s">>, <<"x">>, <<"a","|","b">>, <<"-","-","-">>, <<"a","|","-","-","-">>,
      <<"#"," ","h">>, <<"-"," ","i">>, <<>> }

InitMalformed == InitWith(MessagesOf(MalformedPieces))
SpecMalformed == InitMalformed /\ [][Next]_vars

\* an opening fence and no closing one
UnclosedFence(sec) == Cardinality({i \in 1..Len(sec) : IncludesAt(sec, FENCE, i)}) = 1

\* "|" and "---" in a block of fewer than 3 lines that reaches the table rule
ShortTable(sec) ==
    /\ ReachesTableRule(sec)
    /\ HasPipeAndDashes(sec)
    /\ Len(split(sec, NL)) < 3

\* the node of the block when the block is the whole message
NodeAlone(sec) == formatMessageContent(sec).list[1]

\* C16: malformed markup degrades locally: a block with an unclosed fence is
\* shown as plain text carrying the text of the block, a block with "|" and
\* "---" but fewer than 3 lines is given the first kind below Table that
\* applies (the paragraph carrying the text of the block), and every block
\* of the message has the node it has when it is the whole message
C16_MalformedDegradesLocally ==
    Rendered =>
        /\ Len(nodes.list) = Len(Blocks(content))
        /\ \A i \in 1..Len(Blocks(content)) :
            /\ nodes.list[i] = NodeAlone(Blocks(content)[i])
            /\ UnclosedFence(Blocks(content)[i]) =>
                    /\ Len(nodes.list[i].parts) = 1
                    /\ nodes.list[i].parts[1].kind = "Text"
                    /\ nodes.list[i].parts[1].text = Blocks(content)[i]
            /\ ShortTable(Blocks(content)[i]) =>
                    /\ nodes.list[i].kind \in {"Heading", "Rule", "Paragraph"}
                    /\ nodes.list[i].kind = FirstKind(Blocks(content)[i])
                    /\ nodes.list[i].kind = "Paragraph" =>
                            nodes.list[i].text = Blocks(content)[i]

\* a block with an unclosed fence followed by a block with "|" and "---" on
\* one line
C16_Witness ==
    /\ Rendered
    /\ Len(Blocks(content)) = 2
    /\ UnclosedFence(Blocks(content)[1])
    /\ ShortTable(Blocks(content)[2])
    /\ nodes.list[2].kind = "Paragraph"

----------------------------------------------------------------------------
(* ChatScreen.formatMessageContent, the formatter that ChatScreen applies  *)
(* to message.content: the rule that takes each section.  A node is its    *)
(* kind and the section it shows.                                          *)

MaxBlankLen == 4    \* the length of the texts made of blanks, line breaks and "p"

\* /\n\n+/
ChatSectionSplitRegex == Cat(<<Lit1(NL), Plus(Lit1(NL))>>)

\* /^([^\s]+)\s*\*\*(.*?)\*\*(.*)/s
ChatCalloutRegex ==
    Cat(<<Bol(FALSE), Group(1, Plus(NotIn(WhiteSpace))), Star(In(WhiteSpace)),
          Lit(<<"*","*">>), Group(2, StarLazy(AnyChar)), Lit(<<"*","*">>),
          Group(3, Star(AnyChar))>>)

ChatSectionKind(section) ==
    IF includes(section, FENCE) THEN "CodeFence"
    ELSE IF test(section, BulletTestRegex) THEN "BulletList"
    ELSE IF test(section, NumberedTestRegex) THEN "NumberedList"
    ELSE IF test(section, ChatCalloutRegex) THEN "Callout"
    ELSE "Paragraph"

ChatMapSections(sections) ==
    [i \in 1..Len(sections) |-> [kind |-> ChatSectionKind(sections[i]), text |-> sections[i]]]

\* '' for an empty content, else one node for each section
ChatFormatMessageContent(text) ==
    IF text = <<>> THEN [isNull |-> FALSE, isEmptyString |-> TRUE, list |-> <<>>]
    ELSE [isNull |-> FALSE, isEmptyString |-> FALSE,
          list |-> ChatMapSections(SplitRegex(text, ChatSectionSplitRegex, 1))]

\* {formatMessageContent(message.content)} in ChatScreen
RenderChat ==
    /\ pc = "new"
    /\ nodes' = ChatFormatMessageContent(content)
    /\ pc' = "chat"
    /\ UNCHANGED <<content, fragments, scan, isExpanded, ui>>

NextBlank == Render \/ RenderChat

BlankTexts == UNION {[1..n -> {" ", NL, "p"}] : n \in 0..MaxBlankLen}

InitBlank == InitWith(BlankTexts)
SpecBlank == InitBlank /\ [][NextBlank]_vars

IsBlank(text) == trim(text) = <<>>

\* C17: the format of the empty string and of a text that is only
\* whitespace has no node: it is not a node that holds empty text (null and
\* '' are taken as results without nodes)
C17_BlankGivesNoNodes ==
    (pc \in {"message", "chat"} /\ IsBlank(content)) => nodes.list = <<>>

----------------------------------------------------------------------------
(* Plain paragraphs *)

MaxPlainLen == 4    \* the length of the texts without markup

PlainTexts == UNION {[1..n -> {"p", "q", " ", NL}] : n \in 1..MaxPlainLen}

InitPlain == InitWith(PlainTexts)
SpecPlain == InitPlain /\ [][Next]_vars

\* the positions of text that hold something else than whitespace
Ink(text) == {i \in 1..Len(text) : text[i] \notin WhiteSpace}

\* the text without the whitespace before its first and after its last
\* character that is not whitespace
Stripped(text) == SubSeq(text, Min(Ink(text)), Max(Ink(text)))

\* one block: not blank, and no blank line inside
SingleBlock(text) ==
    /\ Ink(text) /= {}
    /\ ~test(Stripped(text), SectionSplitRegex)

PlainParagraph(text) == [kind |-> "Paragraph", text |-> text, fragments |-> <<Text(text)>>]

\* C18, as claimed: a single block without markup characters is formatted
\* as one Paragraph whose text equals the input, and formatting the text of
\* that paragraph returns the same single paragraph
C18_ParagraphEqualsInput ==
    (Rendered /\ SingleBlock(content)) =>
        /\ nodes.list = <<PlainParagraph(content)>>
        /\ formatMessageContent(nodes.list[1].text) = nodes

\* C18, amended: the text of the Paragraph is the input without its leading
\* and trailing whitespace
C18_ParagraphOfStrippedInput ==
    (pc = "message" /\ SingleBlock(content)) =>
        /\ ~nodes.isNull
        /\ nodes.list = <<PlainParagraph(Stripped(content))>>
        /\ formatMessageContent(nodes.list[1].text) = nodes

\* a block of two lines with whitespace before and after it
C18_Witness ==
    /\ Rendered
    /\ SingleBlock(content)
    /\ content[1] \in WhiteSpace
    /\ \E i \in Ink(content) : i + 1 \in 1..Len(content) /\ content[i + 1] = NL /\ i + 2 \in Ink(content)
    /\ nodes.list[1].text /= content

----------------------------------------------------------------------------
(* The CodeBlock component: content is its code prop, isExpanded its state *)

MaxCodeLines == 33      \* the most lines of a code shown by a CodeBlock

CollapseOver == 30      \* lines.length > 30
CollapsedLines == 25    \* lines.slice(0, 25)

\* const lines = useMemo(() => code.split('\n'), [code])
lines(code) == split(code, NL)

shouldCollapse(code) == Len(lines(code)) > CollapseOver

\* displayLines with the collapsed view cut at the threshold
displayLinesToThreshold(code, expanded) ==
    IF shouldCollapse(code) /\ ~expanded
    THEN SubSeq(lines(code), 1, CollapseOver)
    ELSE lines(code)

displayLines(code, expanded) ==
    IF shouldCollapse(code) /\ ~expanded
    THEN SubSeq(lines(code), 1, CollapsedLines)
    ELSE lines(code)

\* the Expand / Collapse button of the header is rendered
hasToggle(code) == shouldCollapse(code)

\* the collapse indicator ("Show n more lines") is rendered
hasIndicator(code, expanded) == shouldCollapse(code) /\ ~expanded

\* the n of "Show n more lines"
moreLines(code) == Len(lines(code)) - CollapsedLines

\* <CodeBlock code={content} /> is mounted: useState(false)
MountCodeBlock ==
    /\ pc = "new"
    /\ isExpanded' = FALSE
    /\ pc' = "codeblock"
    /\ UNCHANGED <<content, nodes, fragments, scan, ui>>

\* the Expand / Collapse button: setIsExpanded(!isExpanded)
ToggleExpanded ==
    /\ pc = "codeblock"
    /\ hasToggle(content)
    /\ isExpanded' = ~isExpanded
    /\ UNCHANGED <<content, pc, nodes, fragments, scan, ui>>

\* the button of the collapse indicator: setIsExpanded(true)
ShowMore ==
    /\ pc = "codeblock"
    /\ hasIndicator(content, isExpanded)
    /\ isExpanded' = TRUE
    /\ UNCHANGED <<content, pc, nodes, fragments, scan, ui>>

NextCodeBlock == MountCodeBlock \/ ToggleExpanded \/ ShowMore

\* a code of n lines, every k-th of which is "x" and the others empty
CodeOf(n, k) == join([i \in 1..n |-> IF i % k = 0 THEN <<"x">> ELSE <<>>], <<NL>>)

CodeTexts == {CodeOf(n, k) : n \in 1..MaxCodeLines, k \in 1..3}

InitCodeBlock == InitWith(CodeTexts)
SpecCodeBlock == InitCodeBlock /\ [][NextCodeBlock]_vars

\* the number of lines of a code
LineCount(code) == Count(NL, code) + 1

\* the code up to the line break that ends its n-th line
FirstLines(code, n) == SubSeq(code, 1, Nth({i \in 1..Len(code) : code[i] = NL}, n) - 1)

\* what the CodeBlock shows
Shown == join(displayLines(content, isExpanded), <<NL>>)

\* C20: a code of more than 30 lines is first shown as its first 25 lines
\* with a control announcing the other (total - 25) lines; a code of 30
\* lines or fewer is always shown whole, without a collapse control;
\* expanding shows all the lines and collapsing shows 25 again, whatever
\* the sequence of toggles
C20_CollapseTo25 ==
    /\ [](pc = "codeblock" =>
            IF LineCount(content) > 30
            THEN /\ hasToggle(content)
                 /\ ~isExpanded =>
                        /\ Shown = FirstLines(content, 25)
                        /\ Len(displayLines(content, isExpanded)) = 25
                        /\ hasIndicator(content, isExpanded)
                        /\ moreLines(content) = LineCount(content) - 25
                 /\ isExpanded =>
                        /\ Shown = content
                        /\ ~hasIndicator(content, isExpanded)
            ELSE /\ Shown = content
                 /\ ~hasToggle(content)
                 /\ ~hasIndicator(content, isExpanded))
    /\ [][/\ pc = "new" => ~isExpanded'
          /\ (pc = "codeblock" /\ ~isExpanded) => isExpanded'
          /\ (pc = "codeblock" /\ isExpanded) => ~isExpanded']_vars

\* a code of 31 lines, expanded
C20_Witness ==
    /\ pc = "codeblock"
    /\ LineCount(content) = 31
    /\ isExpanded
    /\ Shown = content

----------------------------------------------------------------------------
(* MainLayout, and the ChatScreen it shows *)

\* the repositories of the backend, by id
Repos == {1, 2}

\* what the user can have in the message box: nothing, a blank, a question
Inputs == {<<>>, <<" ">>, <<"q">>}

\* the longest chatMessages a send is modelled for
MaxMessages == 3

\* the most requests that are modelled as outstanding together
MaxOutstanding == 3

Room(reqs) == Cardinality(reqs) <= MaxOutstanding

\* statusData before any status response: statusData?.current_step is undefined
NoStatus == [repo |-> null, current_step |-> "undefined"]

\* the useState calls of ChatScreen; timer is the interval that setInterval
\* started and clearInterval has not stopped, named by the repository it polls
ChatScreen == [mounted |-> TRUE, chatMessages |-> <<>>, messageInput |-> <<>>,
               isTyping |-> FALSE, showSuggestions |-> TRUE, isLoading |-> TRUE,
               error |-> NoError, statusData |-> NoStatus,
               isStatusLoading |-> FALSE, statusPollingInterval |-> null,
               timer |-> null]

\* the useState calls of RepositorySetupScreen
RepositorySetupScreen == [mounted |-> TRUE, repoUrl |-> <<>>,
                          isSubmitting |-> FALSE, submitStatus |-> "null",
                          statusMessage |-> "", timer |-> FALSE]

\* a fetch that has been sent, with what the handler sent or keeps for its
\* answer; live is FALSE once the component that sent it
\* is unmounted, whose state setters then do nothing
Request(kind, r, body) ==
    [kind |-> kind, repo |-> r, live |-> TRUE, body |-> body]

ChatKinds == {"status", "history", "clear", "send"}

\* the requests of an unmounted component stay outstanding
Orphaned(reqs, kinds) ==
    {IF q.kind \in kinds THEN [q EXCEPT !.live = FALSE] ELSE q : q \in reqs}

\* loadRepositoryStatus up to its await: the state it leaves
loadRepositoryStatus(c, r, isPolling) ==
    IF r = null \/ isPolling THEN c ELSE [c EXCEPT !.isStatusLoading = TRUE]

\* loadChatHistory up to its await
loadChatHistory(c, r) ==
    IF r = null THEN c ELSE [c EXCEPT !.isLoading = TRUE]

\* the requests the two loaders send for repository r
LoadRequests(r) ==
    IF r = null THEN {}
    ELSE {Request("status", r, <<>>), Request("history", r, <<>>)}

\* useEffect(() => { loadRepositoryStatus(); loadChatHistory(); }, [activeRepo?.id])
LoadEffect(c, r) == loadChatHistory(loadRepositoryStatus(c, r, FALSE), r)

\* the polling effect, dependencies [activeRepo?.id]: it reads the statusData
\* of the render it runs in
PollingEffect(c, r) ==
    IF r /= null /\ c.statusData.current_step /= "Completed"
    THEN [c EXCEPT !.timer = r, !.statusPollingInterval = r]
    ELSE IF c.statusPollingInterval /= null
         THEN [c EXCEPT !.statusPollingInterval = null]
         ELSE c

\* the cleanup the polling effect returned: clearInterval
PollingCleanup(c) == [c EXCEPT !.timer = null]

\* both effects, run at mount and when activeRepo?.id has changed
Effects(c, r) == PollingEffect(LoadEffect(PollingCleanup(c), r), r)

\* renderMainContent for the layout l2 that a handler has set: ChatScreen is
\* kept (no key) while the screen stays 'chat', and mounted anew otherwise
ShowChat(l2) ==
    IF l2.currentScreen /= "chat" THEN NoChat
    ELSE IF ~chat.mounted THEN Effects(ChatScreen, l2.activeRepo)
    ELSE IF l2.activeRepo = layout.activeRepo THEN chat
    ELSE Effects(chat, l2.activeRepo)

ShowSetup(l2) ==
    IF l2.currentScreen /= "setup" THEN NoSetup
    ELSE IF setup.mounted THEN setup
    ELSE RepositorySetupScreen

\* the requests outstanding once l2 is rendered
ShowNet(l2, reqs) ==
    LET kept == Orphaned(Orphaned(reqs,
                             IF chat.mounted /\ l2.currentScreen /= "chat"
                             THEN ChatKinds ELSE {}),
                         IF setup.mounted /\ l2.currentScreen /= "setup"
                         THEN {"submit"} ELSE {})
    IN  IF l2.currentScreen = "chat"
           /\ (~chat.mounted \/ l2.activeRepo /= layout.activeRepo)
        THEN kept \cup LoadRequests(l2.activeRepo)
        ELSE kept

\* a MainLayout handler has set l2, and React shows it
SetLayout(l2, reqs) ==
    /\ layout' = l2
    /\ chat' = ShowChat(l2)
    /\ setup' = ShowSetup(l2)
    /\ net' = ShowNet(l2, reqs)
    /\ Room(net')

\* the formatter is not part of these steps
Formatter == <<content, pc, nodes, fragments, scan, isExpanded>>

handleRepoSelect(repo) ==
    /\ sidebar.loading = FALSE
    /\ sidebar.error = NoError
    /\ \E i \in 1..Len(sidebar.repositories) : sidebar.repositories[i] = repo
    /\ SetLayout([layout EXCEPT !.activeRepo = repo, !.currentScreen = "chat"], net)
    /\ UNCHANGED <<Formatter, sidebar>>

\* the button of the welcome screen, or the one of the sidebar
handleAddRepository ==
    /\ \/ layout.currentScreen = "welcome"
       \/ sidebar.loading = FALSE /\ sidebar.error = NoError
    /\ SetLayout([layout EXCEPT !.activeRepo = null, !.currentScreen = "setup"], net)
    /\ UNCHANGED <<Formatter, sidebar>>

handleBackToWelcome ==
    /\ setup.mounted
    /\ SetLayout([layout EXCEPT !.activeRepo = null, !.currentScreen = "welcome"], net)
    /\ UNCHANGED <<Formatter, sidebar>>

\* if (isLoading) return the loader: nothing else of the screen is shown
ScreenShown(c) == c.mounted /\ ~c.isLoading

\* the input is rendered with disabled={isTyping || current_step !== 'Completed'}
InputEnabled(c) ==
    ScreenShown(c) /\ ~(c.isTyping \/ c.statusData.current_step /= "Completed")

\* the send button is rendered with disabled={!messageInput.trim() || ...}
SendEnabled(c) ==
    /\ ScreenShown(c)
    /\ ~(trim(c.messageInput) = <<>> \/ c.isTyping
         \/ c.statusData.current_step /= "Completed")

\* onChange={(e) => setMessageInput(e.target.value)}
SetMessageInput(v) ==
    /\ InputEnabled(chat)
    /\ chat' = [chat EXCEPT !.messageInput = v]
    /\ UNCHANGED <<Formatter, layout, net, setup, sidebar>>

\* the suggestions are shown for an empty, completed conversation
handleSuggestionClick ==
    /\ ScreenShown(chat)
    /\ chat.showSuggestions
    /\ Len(chat.chatMessages) = 0
    /\ chat.statusData.current_step = "Completed"
    /\ chat' = [chat EXCEPT !.messageInput = <<"q">>]
    /\ UNCHANGED <<Formatter, layout, net, setup, sidebar>>

\* the x of the error banner: setError(null)
DismissError ==
    /\ ScreenShown(chat)
    /\ chat.error /= NoError
    /\ chat' = [chat EXCEPT !.error = NoError]
    /\ UNCHANGED <<Formatter, layout, net, setup, sidebar>>

\* the callback of setInterval, every 2000 ms while the timer runs
PollTick ==
    /\ chat.mounted
    /\ chat.timer /= null
    /\ chat' = loadRepositoryStatus(chat, chat.timer, FALSE)
    /\ net' = net \cup {Request("status", chat.timer, <<>>)}
    /\ Room(net')
    /\ UNCHANGED <<Formatter, layout, setup, sidebar>>

\* the Refresh button of the status panel, shown while statusData is not
\* 'Completed'
handleRefresh ==
    /\ ScreenShown(chat)
    /\ chat.statusData /= NoStatus
    /\ chat.statusData.current_step /= "Completed"
    /\ ~chat.isStatusLoading
    /\ chat' = LoadEffect(chat, layout.activeRepo)
    /\ net' = net \cup LoadRequests(layout.activeRepo)
    /\ Room(net')
    /\ UNCHANGED <<Formatter, layout, setup, sidebar>>

\* the answers the backend can give to GET /repositories/:id/status
StatusOutcomes == {"Analyzing", "Completed", "not ok", "throws"}

\* loadRepositoryStatus from its await on
StatusResponse(q, outcome) ==
    /\ q \in net
    /\ q.kind = "status"
    /\ net' = net \ {q}
    /\ chat' = IF ~q.live THEN chat
               ELSE [chat EXCEPT
                        !.statusData =
                            IF outcome \in {"not ok", "throws"} THEN @
                            ELSE [repo |-> q.repo, current_step |-> outcome],
                        !.isStatusLoading = FALSE]
    /\ UNCHANGED <<Formatter, layout, setup, sidebar>>

\* a message of the list: the kind of its id ("temp" for temp_<time>, "error"
\* for error_<time>, "message_id" and "stored" for the ids of the backend), its
\* type, its text, the isError mark, and the repository whose conversation it
\* is part of
Message(id, type, text, isError, r) ==
    [id |-> id, type |-> type, content |-> text, isError |-> isError, of |-> r]

\* the answers to GET /repositories/:id/chat: data.messages is a list of the
\* messages stored for that repository, or is missing
HistoryOutcomes(r) ==
    {[kind |-> k, messages |-> <<>>] : k \in {"not ok", "throws", "no list"}}
    \cup {[kind |-> "ok", messages |-> ms] :
             ms \in {<<>>, <<Message("stored", "user", <<"h">>, FALSE, r)>>}}

\* loadChatHistory from its await on
HistoryResponse(q, outcome) ==
    /\ q \in net
    /\ q.kind = "history"
    /\ outcome \in HistoryOutcomes(q.repo)
    /\ net' = net \ {q}
    /\ chat' = IF ~q.live THEN chat
               ELSE [chat EXCEPT
                        !.chatMessages =
                            IF outcome.kind \in {"ok", "no list"}
                            THEN outcome.messages ELSE @,
                        !.showSuggestions =
                            IF outcome.kind = "ok"
                            THEN Len(outcome.messages) = 0 ELSE @,
                        !.error =
                            IF outcome.kind \in {"throws", "no list"}
                            THEN "Failed to load chat history" ELSE @,
                        !.isLoading = FALSE]
    /\ UNCHANGED <<Formatter, layout, setup, sidebar>>

\* the trash button of the header, up to the await of the DELETE
clearChatHistory ==
    /\ ScreenShown(chat)
    /\ layout.activeRepo /= null
    /\ net' = net \cup {Request("clear", layout.activeRepo, <<>>)}
    /\ Room(net')
    /\ UNCHANGED <<Formatter, layout, chat, setup, sidebar>>

\* clearChatHistory from its await on
ClearResponse(q, outcome) ==
    /\ q \in net
    /\ q.kind = "clear"
    /\ outcome \in {"ok", "not ok", "throws"}
    /\ net' = net \ {q}
    /\ chat' = IF ~q.live THEN chat
               ELSE IF outcome = "ok"
               THEN [chat EXCEPT !.chatMessages = <<>>, !.showSuggestions = TRUE]
               ELSE IF outcome = "throws"
               THEN [chat EXCEPT !.error = "Failed to clear chat history"]
               ELSE chat
    /\ UNCHANGED <<Formatter, layout, setup, sidebar>>

\* handleSendMessage up to its await, by Enter in the input or by the send
\* button; sendMessage posts message.trim() for the active repository
handleSendMessage ==
    /\ InputEnabled(chat)
    /\ ~(trim(chat.messageInput) = <<>> \/ chat.isTyping)
    /\ Len(chat.chatMessages) + 2 <= MaxMessages
    /\ chat' = [chat EXCEPT
                   !.chatMessages =
                       Append(@, Message("temp", "user", chat.messageInput,
                                         FALSE, layout.activeRepo)),
                   !.messageInput = <<>>,
                   !.isTyping = TRUE,
                   !.showSuggestions = FALSE,
                   !.error = NoError]
    /\ net' = net \cup {Request("send", layout.activeRepo,
                                trim(chat.messageInput))}
    /\ Room(net')
    /\ UNCHANGED <<Formatter, layout, setup, sidebar>>

\* the message handleSendMessage appends for what sendMessage returned
aiMessage(q) == Message("message_id", "assistant", <<"r">>, FALSE, q.repo)

errorMessage(q) ==
    Message("error", "assistant", <<"S", "o", "r", "r", "y">>, TRUE, q.repo)

\* a handleSendMessage that resets isTyping only after a reply
SendResponseKeepsTyping(q, outcome) ==
    /\ q \in net
    /\ q.kind = "send"
    /\ outcome \in {"ok", "not ok", "throws"}
    /\ net' = net \ {q}
    /\ chat' = IF ~q.live THEN chat
               ELSE [chat EXCEPT
                        !.error = IF outcome = "ok" THEN @
                                  ELSE "Failed to send message",
                        !.chatMessages =
                            Append(@, IF outcome = "ok" THEN aiMessage(q)
                                      ELSE errorMessage(q)),
                        !.isTyping = outcome /= "ok"]
    /\ UNCHANGED <<Formatter, layout, setup, sidebar>>

\* sendMessage and handleSendMessage from the await of the POST on
SendResponse(q, outcome) ==
    /\ q \in net
    /\ q.kind = "send"
    /\ outcome \in {"ok", "not ok", "throws"}
    /\ net' = net \ {q}
    /\ chat' = IF ~q.live THEN chat
               ELSE [chat EXCEPT
                        !.error = IF outcome = "ok" THEN @
                                  ELSE "Failed to send message",
                        !.chatMessages =
                            Append(@, IF outcome = "ok" THEN aiMessage(q)
                                      ELSE errorMessage(q)),
                        !.isTyping = FALSE]
    /\ UNCHANGED <<Formatter, layout, setup, sidebar>>

\* the steps of MainLayout and of the ChatScreen it shows
NextChat ==
    \/ \E repo \in Repos : handleRepoSelect(repo)
    \/ handleAddRepository
    \/ handleBackToWelcome
    \/ \E v \in Inputs : SetMessageInput(v)
    \/ handleSuggestionClick
    \/ DismissError
    \/ PollTick
    \/ handleRefresh
    \/ \E q \in net, outcome \in StatusOutcomes : StatusResponse(q, outcome)
    \/ \E q \in net : \E outcome \in HistoryOutcomes(q.repo) : HistoryResponse(q, outcome)
    \/ clearChatHistory
    \/ \E q \in net, outcome \in {"ok", "not ok", "throws"} : ClearResponse(q, outcome)
    \/ handleSendMessage
    \/ \E q \in net, outcome \in {"ok", "not ok", "throws"} : SendResponse(q, outcome)

\* the layout after construction, beside a sidebar that has fetched its list
SidebarFetched == [EnhancedSidebar EXCEPT !.repositories = <<1, 2>>,
                                         !.loading = FALSE,
                                         !.graphStates = [r \in Repos |-> FALSE]]

InitChat ==
    /\ content = <<>>
    /\ pc = "new"
    /\ nodes = NoNodes
    /\ fragments = <<>>
    /\ scan = NoScan
    /\ isExpanded = FALSE
    /\ layout = MainLayout
    /\ chat = NoChat
    /\ net = {}
    /\ setup = NoSetup
    /\ sidebar = SidebarFetched

SpecChat == InitChat /\ [][NextChat]_vars

----------------------------------------------------------------------------
(* Status polling *)

\* the status last received by the mounted ChatScreen says that the analysis
\* of repository r is completed
KnownCompleted(r) ==
    chat.mounted /\ chat.statusData = [repo |-> r, current_step |-> "Completed"]

\* C21: polling runs only while the analysis is incomplete: once a status
\* response with current_step = 'Completed' has been received for a
\* repository, the interval issues no further status request for it.
C21_NoPollingAfterCompleted ==
    [][PollTick => ~KnownCompleted(chat.timer)]_vars

----------------------------------------------------------------------------
(* Overlapping sends *)

\* the POST /chat requests that have not been answered yet
OutstandingSends == {q \in net : q.kind = "send"}

\* C22: sends never overlap: at most one POST /chat request is outstanding
\* at any time.
C22_AtMostOneSendOutstanding == Cardinality(OutstandingSends) <= 1

----------------------------------------------------------------------------
(* The life of a message *)

\* the messages of a list that a send or its answer added, in order
SentOrReceived(msgs) == SelectSeq(msgs, LAMBDA msg : msg.id /= "stored")

IsPrefix(a, b) == Len(a) <= Len(b) /\ SubSeq(b, 1, Len(a)) = a

\* a step that is the answer to a successful DELETE of the history
SuccessfulClear == \E q \in net : ClearResponse(q, "ok")

\* C23: a message added to chatMessages by a send or a receive is never
\* modified and leaves the list only through a successful clear-history: any
\* other step of a mounted ChatScreen keeps the messages sent and received so
\* far, in their order.
C23_MessagesLeaveOnlyByClear ==
    [][(chat.mounted /\ chat'.mounted /\ ~SuccessfulClear)
       => IsPrefix(SentOrReceived(chat.chatMessages),
                   SentOrReceived(chat'.chatMessages))]_vars

----------------------------------------------------------------------------
(* Input gating *)

\* C24: the message input and the send control are enabled only when the
\* status most recently received for the active repository has current_step
\* = 'Completed'.
C24_InputOnlyWhenActiveRepoCompleted ==
    (InputEnabled(chat) \/ SendEnabled(chat)) => KnownCompleted(layout.activeRepo)

----------------------------------------------------------------------------
(* The sidebar *)

\* the lists GET /repositories can answer with
RepoLists == {<<>>, <<1>>, <<2>>, <<1, 2>>}

\* an object without the key r, and with the key r set to v
WithoutKey(f, r) == [x \in DOMAIN f \ {r} |-> f[x]]

WithKey(f, r, v) == [x \in DOMAIN f \cup {r} |-> IF x = r THEN v ELSE f[x]]

\* the ids of a list of repositories
Ids(list) == {list[i] : i \in 1..Len(list)}

\* if (loading) the spinner, if (error) the error screen, else the list
SidebarShown == ~sidebar.loading /\ sidebar.error = NoError

\* fetchRepositories up to its await: the state it leaves
fetchRepositories(sb) == [sb EXCEPT !.loading = TRUE]

\* "Try again" of the error screen, or the refresh button beside "Add Repo"
ClickFetchRepositories ==
    /\ ~sidebar.loading
    /\ sidebar' = fetchRepositories(sidebar)
    /\ net' = net \cup {Request("repositories", null, <<>>)}
    /\ Room(net')
    /\ UNCHANGED <<Formatter, layout, chat, setup>>

FetchOutcomes ==
    {[kind |-> k, list |-> <<>>] : k \in {"not ok", "throws"}}
    \cup {[kind |-> "ok", list |-> list] : list \in RepoLists}

\* fetchRepositories from the await of the fetch to the await of
\* fetchAllGraphStates, or to its end when it throws
FetchResponse(q, outcome) ==
    /\ q \in net
    /\ q.kind = "repositories"
    /\ outcome \in FetchOutcomes
    /\ IF outcome.kind = "ok"
       THEN /\ sidebar' = [sidebar EXCEPT !.repositories = outcome.list]
            /\ net' = (net \ {q}) \cup {Request("graph-status", null, outcome.list)}
       ELSE /\ sidebar' = [sidebar EXCEPT
                              !.error = IF outcome.kind = "not ok"
                                        THEN "Failed to fetch repositories"
                                        ELSE "Failed to fetch",
                              !.loading = FALSE]
            /\ net' = net \ {q}
    /\ UNCHANGED <<Formatter, layout, chat, setup>>

\* fetchAllGraphStates from its first await, and the end of fetchRepositories:
\* answered holds the repositories whose graph-status request was answered ok
GraphStatesResponse(q, answered) ==
    /\ q \in net
    /\ q.kind = "graph-status"
    /\ answered \subseteq Ids(q.body)
    /\ sidebar' = [sidebar EXCEPT !.graphStates = [r \in answered |-> FALSE],
                                  !.loading = FALSE]
    /\ net' = net \ {q}
    /\ UNCHANGED <<Formatter, layout, chat, setup>>

\* deleteRepository up to its await; confirmed is the answer to window.confirm
deleteRepository(repoId, confirmed) ==
    /\ SidebarShown
    /\ repoId \in Ids(sidebar.repositories)
    /\ ~(repoId \in DOMAIN sidebar.loadingStates
         /\ sidebar.loadingStates[repoId] = "deleting")
    /\ IF ~confirmed
       THEN UNCHANGED <<sidebar, net>>
       ELSE /\ sidebar' = [sidebar EXCEPT
                              !.loadingStates = WithKey(@, repoId, "deleting")]
            /\ net' = net \cup {Request("delete", repoId, <<>>)}
            /\ Room(net')
    /\ UNCHANGED <<Formatter, layout, chat, setup>>

\* a deleteRepository that leaves the graphStates entry of the repository
DeleteResponseKeepsGraphState(q, outcome) ==
    /\ q \in net
    /\ q.kind = "delete"
    /\ outcome \in {"ok", "not ok", "throws"}
    /\ sidebar' = [sidebar EXCEPT
                      !.repositories =
                          IF outcome = "ok"
                          THEN SelectSeq(@, LAMBDA id : id /= q.repo) ELSE @,
                      !.loadingStates = WithoutKey(@, q.repo)]
    /\ net' = net \ {q}
    /\ UNCHANGED <<Formatter, layout, chat, setup>>

\* deleteRepository from its await on
DeleteResponse(q, outcome) ==
    /\ q \in net
    /\ q.kind = "delete"
    /\ outcome \in {"ok", "not ok", "throws"}
    /\ sidebar' = [sidebar EXCEPT
                      !.repositories =
                          IF outcome = "ok"
                          THEN SelectSeq(@, LAMBDA id : id /= q.repo) ELSE @,
                      !.graphStates =
                          IF outcome = "ok" THEN WithoutKey(@, q.repo) ELSE @,
                      !.loadingStates = WithoutKey(@, q.repo)]
    /\ net' = net \ {q}
    /\ UNCHANGED <<Formatter, layout, chat, setup>>

\* the graph button of a repository: loadGraph or clearGraph up to the await
loadOrClearGraph(repoId) ==
    /\ SidebarShown
    /\ repoId \in Ids(sidebar.repositories)
    /\ repoId \in DOMAIN sidebar.graphStates
    /\ ~(repoId \in DOMAIN sidebar.loadingStates
         /\ sidebar.loadingStates[repoId] \in {"loading", "clearing"})
    /\ LET loaded == sidebar.graphStates[repoId]
       IN  /\ sidebar' = [sidebar EXCEPT
                             !.loadingStates =
                                 WithKey(@, repoId, IF loaded THEN "clearing"
                                                 ELSE "loading")]
           /\ net' = net \cup {Request(IF loaded THEN "clear-graph"
                                       ELSE "load-graph", repoId, <<>>)}
    /\ Room(net')
    /\ UNCHANGED <<Formatter, layout, chat, setup>>

\* loadGraph and clearGraph from their await on
GraphResponse(q, outcome) ==
    /\ q \in net
    /\ q.kind \in {"load-graph", "clear-graph"}
    /\ outcome \in {"ok", "fails"}
    /\ sidebar' = [sidebar EXCEPT
                      !.graphStates =
                          IF outcome = "ok"
                          THEN WithKey(@, q.repo, q.kind = "load-graph") ELSE @,
                      !.loadingStates = WithoutKey(@, q.repo)]
    /\ net' = net \ {q}
    /\ UNCHANGED <<Formatter, layout, chat, setup>>

NextSidebar ==
    \/ ClickFetchRepositories
    \/ \E q \in net, outcome \in FetchOutcomes : FetchResponse(q, outcome)
    \/ \E q \in net : \E answered \in SUBSET Repos : GraphStatesResponse(q, answered)
    \/ \E repoId \in Repos, confirmed \in BOOLEAN : deleteRepository(repoId, confirmed)
    \/ \E q \in net, outcome \in {"ok", "not ok", "throws"} : DeleteResponse(q, outcome)
    \/ \E repoId \in Repos : loadOrClearGraph(repoId)
    \/ \E q \in net, outcome \in {"ok", "fails"} : GraphResponse(q, outcome)

\* the sidebar after its first render: the mount effect has called
\* fetchRepositories
InitSidebar ==
    /\ content = <<>>
    /\ pc = "new"
    /\ nodes = NoNodes
    /\ fragments = <<>>
    /\ scan = NoScan
    /\ isExpanded = FALSE
    /\ layout = MainLayout
    /\ chat = NoChat
    /\ setup = NoSetup
    /\ sidebar = fetchRepositories(EnhancedSidebar)
    /\ net = {Request("repositories", null, <<>>)}

SpecSidebar == InitSidebar /\ [][NextSidebar]_vars

----------------------------------------------------------------------------
(* Recovery of the sidebar *)

\* a step that ends a fetchRepositories call without an error
FetchSucceeds ==
    \E q \in net : \E answered \in SUBSET Repos : GraphStatesResponse(q, answered)

\* a step that ends a fetchRepositories call in its catch block
FetchFails ==
    \E q \in net, outcome \in FetchOutcomes :
        outcome.kind /= "ok" /\ FetchResponse(q, outcome)

\* C28: when a fetchRepositories call succeeds, also after an earlier call
\* has failed, the sidebar is out of the error state and shows the fetched
\* list; loading is false after every call that completes.
C28_SidebarRecovers ==
    [][/\ FetchSucceeds => SidebarShown'
       /\ (FetchSucceeds \/ FetchFails) => ~sidebar'.loading]_vars

----------------------------------------------------------------------------
(* Deleting a repository *)

\* how often id r is in a list of repositories
Occurrences(list, r) == Cardinality({i \in 1..Len(list) : list[i] = r})

\* the list and the graph states are the ones before the step
DeleteChangesNothing ==
    /\ sidebar'.repositories = sidebar.repositories
    /\ sidebar'.graphStates = sidebar.graphStates

\* exactly repository r is gone from the list and from graphStates
DeleteRemovesOnly(r) ==
    /\ Occurrences(sidebar'.repositories, r) = 0
    /\ Len(sidebar'.repositories)
           = Len(sidebar.repositories) - Occurrences(sidebar.repositories, r)
    /\ \A other \in Repos \ {r} :
           Occurrences(sidebar'.repositories, other)
               = Occurrences(sidebar.repositories, other)
    /\ DOMAIN sidebar'.graphStates = DOMAIN sidebar.graphStates \ {r}
    /\ \A other \in DOMAIN sidebar'.graphStates :
           sidebar'.graphStates[other] = sidebar.graphStates[other]

\* C30: deleteRepository leaves repositories and graphStates unchanged when
\* the user declines or the DELETE request fails; when the request succeeds
\* it removes exactly the deleted repository from repositories and its entry
\* from graphStates; in both outcomes of the request the loadingStates entry
\* of the repository is removed when the operation ends.
C30_DeleteRepositoryFrame ==
    [][/\ \A repoId \in Repos, confirmed \in BOOLEAN :
              deleteRepository(repoId, confirmed) => DeleteChangesNothing
       /\ \A q \in net, outcome \in {"ok", "not ok", "throws"} :
              DeleteResponse(q, outcome)
                  => /\ IF outcome = "ok" THEN DeleteRemovesOnly(q.repo)
                        ELSE DeleteChangesNothing
                     /\ q.repo \notin DOMAIN sidebar'.loadingStates]_vars

\* a DELETE for repository 1 is outstanding while repository 2 is listed too
\* and both have a graph state
C30_Witness ==
    /\ Request("delete", 1, <<>>) \in net
    /\ sidebar.repositories = <<1, 2>>
    /\ DOMAIN sidebar.graphStates = {1, 2}
    /\ sidebar.loadingStates = WithKey(<< >>, 1, "deleting")

----------------------------------------------------------------------------
(* RepositorySetupScreen, and MainLayout.handleRepositoryAdded *)

\* what the user can have in the URL box: nothing, a blank, a URL
UrlInputs == {<<>>, <<" ">>, <<"u">>}

\* the id the backend gives to a repository it creates (data.repository_id):
\* one that no repository has yet
NewRepo == Cardinality(Repos) + 1

\* the longest repositories list of MainLayout that is modelled
MaxRepositories == 4

\* onChange={(e) => setRepoUrl(e.target.value)}, disabled={isSubmitting}
SetRepoUrl(v) ==
    /\ setup.mounted
    /\ ~setup.isSubmitting
    /\ setup' = [setup EXCEPT !.repoUrl = v]
    /\ UNCHANGED <<Formatter, layout, chat, net, sidebar>>

\* handleSubmitRepo up to its await. The submit button is disabled while
\* isSubmitting; it is disabled for a blank URL too, and the early return of
\* the handler for a blank URL is modelled all the same
handleSubmitRepo ==
    /\ setup.mounted
    /\ ~setup.isSubmitting
    /\ IF trim(setup.repoUrl) = <<>>
       THEN UNCHANGED <<setup, net>>
       ELSE /\ setup' = [setup EXCEPT !.isSubmitting = TRUE,
                                      !.submitStatus = "null",
                                      !.statusMessage = ""]
            /\ net' = net \cup {Request("submit", null, trim(setup.repoUrl))}
            /\ Room(net')
    /\ UNCHANGED <<Formatter, layout, chat, sidebar>>

\* the answers to POST /repositories: a network or JSON error, a non-OK
\* status, or an OK answer with data.status
SubmitOutcomes == {"throws", "not ok", "exists", "invalid", "created", "other"}

\* handleSubmitRepo that resets isSubmitting only where it sets a status
SubmitEndNoFinally(s, outcome) ==
    [s EXCEPT
        !.submitStatus = IF outcome \in {"exists", "invalid"} THEN outcome
                         ELSE IF outcome = "created" THEN "success"
                         ELSE IF outcome = "other" THEN @
                         ELSE "error",
        !.statusMessage = IF outcome = "other" THEN @ ELSE outcome,
        !.timer = IF outcome = "created" THEN TRUE ELSE @,
        !.isSubmitting = IF outcome \in {"throws", "not ok"} THEN @ ELSE FALSE]

\* the state handleSubmitRepo leaves in its component when its POST is
\* answered: try, catch and finally
SubmitEnd(s, outcome) ==
    [s EXCEPT
        !.submitStatus = IF outcome \in {"exists", "invalid"} THEN outcome
                         ELSE IF outcome = "created" THEN "success"
                         ELSE IF outcome = "other" THEN @
                         ELSE "error",
        !.statusMessage = IF outcome = "other" THEN @ ELSE outcome,
        !.timer = IF outcome = "created" THEN TRUE ELSE @,
        !.isSubmitting = FALSE]

\* MainLayout.handleRepositoryAdded that activates the repository only
handleRepositoryAddedStays(l, newRepo) ==
    [l EXCEPT !.repositories = Append(@, newRepo), !.activeRepo = newRepo]

\* MainLayout.handleRepositoryAdded: the layout it sets
handleRepositoryAdded(l, newRepo) ==
    [l EXCEPT !.repositories = Append(@, newRepo), !.activeRepo = newRepo,
              !.currentScreen = "chat"]

\* handleSubmitRepo from its await on. For 'created' it calls
\* onRepositoryAdded, which is MainLayout.handleRepositoryAdded: the sidebar
\* fetches again and the chat screen replaces the setup screen, whose state is
\* kept here as the handler left it, with mounted = FALSE
SubmitResponse(q, outcome) ==
    /\ q \in net
    /\ q.kind = "submit"
    /\ outcome \in SubmitOutcomes
    /\ IF outcome = "created"
       THEN /\ Len(layout.repositories) < MaxRepositories
            /\ layout' = handleRepositoryAdded(layout, NewRepo)
            /\ chat' = ShowChat(handleRepositoryAdded(layout, NewRepo))
            /\ setup' = IF q.live
                        THEN [SubmitEnd(setup, outcome) EXCEPT !.mounted = FALSE]
                        ELSE NoSetup
            /\ sidebar' = fetchRepositories(sidebar)
            /\ net' = ShowNet(handleRepositoryAdded(layout, NewRepo), net \ {q})
                          \cup {Request("repositories", null, <<>>)}
            /\ Room(net')
       ELSE /\ setup' = IF q.live THEN SubmitEnd(setup, outcome) ELSE setup
            /\ net' = net \ {q}
            /\ UNCHANGED <<layout, chat, sidebar>>
    /\ UNCHANGED Formatter

\* the button of the error message
handleReset ==
    /\ setup.mounted
    /\ setup.submitStatus = "error"
    /\ setup' = [setup EXCEPT !.submitStatus = "null", !.statusMessage = "",
                              !.repoUrl = <<>>]
    /\ UNCHANGED <<Formatter, layout, chat, net, sidebar>>

\* the callback of setTimeout(..., 2000) after 'created': the setters of an
\* unmounted component do nothing
ResetTimer ==
    /\ setup /= NoSetup
    /\ setup.timer
    /\ setup' = IF setup.mounted
                THEN [setup EXCEPT !.repoUrl = <<>>, !.submitStatus = "null",
                                   !.statusMessage = "", !.timer = FALSE]
                ELSE [setup EXCEPT !.timer = FALSE]
    /\ UNCHANGED <<Formatter, layout, chat, net, sidebar>>

\* the steps of MainLayout with the setup screen, and the answers to what
\* the chat screen and the sidebar request when a repository is added
NextSetup ==
    \/ \E repo \in Repos : handleRepoSelect(repo)
    \/ handleAddRepository
    \/ handleBackToWelcome
    \/ \E v \in UrlInputs : SetRepoUrl(v)
    \/ handleSubmitRepo
    \/ \E q \in net, outcome \in SubmitOutcomes : SubmitResponse(q, outcome)
    \/ handleReset
    \/ ResetTimer
    \/ \E q \in net, outcome \in StatusOutcomes : StatusResponse(q, outcome)
    \/ \E q \in net : \E outcome \in HistoryOutcomes(q.repo) : HistoryResponse(q, outcome)
    \/ \E q \in net, outcome \in FetchOutcomes : FetchResponse(q, outcome)
    \/ \E q \in net : \E answered \in SUBSET Repos : GraphStatesResponse(q, answered)

SpecSetup == InitChat /\ [][NextSetup]_vars

----------------------------------------------------------------------------
(* The screen of MainLayout *)

\* C25: after any sequence of handleRepoSelect, handleAddRepository,
\* handleRepositoryAdded and handleBackToWelcome, currentScreen is 'welcome',
\* 'setup' or 'chat', and it is 'chat' if and only if activeRepo is not null.
C25_ChatIffActiveRepo ==
    /\ layout.currentScreen \in {"welcome", "setup", "chat"}
    /\ layout.currentScreen = "chat" <=> layout.activeRepo /= null

\* the chat of the repository that the setup screen has just added
C25_Witness ==
    /\ layout.currentScreen = "chat"
    /\ layout.activeRepo = NewRepo
    /\ chat.mounted
    /\ ~setup.mounted

----------------------------------------------------------------------------
(* Submitting a repository *)

\* the POST /repositories of the mounted setup screen is outstanding
SubmitOutstanding == \E q \in net : q.kind = "submit" /\ q.live

\* the submitStatus that the answer of the backend ends in
StatusFor(outcome) ==
    CASE outcome = "created" -> "success"
      [] outcome = "exists" -> "exists"
      [] outcome = "invalid" -> "invalid"
      [] outcome \in {"not ok", "throws"} -> "error"

\* C29: handleSubmitRepo with a blank or whitespace-only URL sends no request
\* and changes no state; otherwise isSubmitting is true while the POST is
\* outstanding and false once it has ended, whatever the outcome; submitStatus
\* ends as 'success' for 'created', 'exists' for 'exists', 'invalid' for
\* 'invalid' and 'error' for a non-OK answer or a thrown error; and
\* onRepositoryAdded (MainLayout.handleRepositoryAdded) is called only for
\* 'created'.
C29_HandleSubmitRepo ==
    [][/\ (handleSubmitRepo /\ trim(setup.repoUrl) = <<>>)
              => UNCHANGED <<setup, net, layout>>
       /\ SubmitOutstanding => setup.mounted /\ setup.isSubmitting
       /\ \A q \in net, outcome \in SubmitOutcomes :
              SubmitResponse(q, outcome)
                  => /\ q.live => ~setup'.isSubmitting
                     /\ (q.live /\ outcome /= "other")
                            => setup'.submitStatus = StatusFor(outcome)
                     /\ IF outcome = "created"
                        THEN layout' = [activeRepo |-> NewRepo,
                                        currentScreen |-> "chat",
                                        repositories |->
                                            Append(layout.repositories, NewRepo)]
                        ELSE layout' = layout]_vars

\* the setup screen as its handler left it after 'created', and the chat of
\* the new repository in its place
C29_Witness ==
    /\ setup /= NoSetup
    /\ ~setup.mounted
    /\ setup.submitStatus = "success"
    /\ ~setup.isSubmitting
    /\ layout.activeRepo = NewRepo
    /\ layout.currentScreen = "chat"

----------------------------------------------------------------------------
(* One send, one answer *)

\* a step that answers a POST /chat
SendAnswered ==
    \E q \in net, outcome \in {"ok", "not ok", "throws"} : SendResponse(q, outcome)

\* every fetch is settled in the end: the POST is answered or it fails
FairChat == SpecChat /\ WF_vars(SendAnswered)

\* the POST /chat of the mounted ChatScreen is outstanding
SendOutstanding == \E q \in net : q.kind = "send" /\ q.live

\* the assistant messages of a list that an answer appended
Answers(msgs) ==
    SelectSeq(msgs, LAMBDA msg : msg.type = "assistant" /\ msg.id /= "stored")

\* C26: a handleSendMessage that passes its guard appends the user's message,
\* and the answer to its request appends exactly one assistant message after
\* it, the reply if the request succeeded and an error-marked message if not;
\* isTyping is true from the send to that message and false after it; and
\* the answer does come.
C26_SendThenOneAnswer ==
    /\ [][/\ handleSendMessage
                 => /\ Len(chat'.chatMessages) = Len(chat.chatMessages) + 1
                    /\ SubSeq(chat'.chatMessages, 1, Len(chat.chatMessages))
                           = chat.chatMessages
                    /\ LET sent == chat'.chatMessages[Len(chat'.chatMessages)]
                       IN  /\ sent.type = "user"
                           /\ sent.content = chat.messageInput
                    /\ chat'.isTyping
          /\ SendOutstanding => chat.mounted /\ chat.isTyping
          /\ \A q \in net, outcome \in {"ok", "not ok", "throws"} :
                 (SendResponse(q, outcome) /\ q.live)
                     => /\ Len(chat'.chatMessages) = Len(chat.chatMessages) + 1
                        /\ SubSeq(chat'.chatMessages, 1, Len(chat.chatMessages))
                               = chat.chatMessages
                        /\ LET got == chat'.chatMessages[Len(chat'.chatMessages)]
                           IN  /\ got.type = "assistant"
                               /\ got.isError <=> outcome /= "ok"
                        /\ ~chat'.isTyping
          /\ (chat.mounted /\ chat'.mounted /\ ~(SendAnswered /\ SendOutstanding))
                 => Len(Answers(chat'.chatMessages))
                        <= Len(Answers(chat.chatMessages))]_vars
    /\ (SendOutstanding ~> ~SendOutstanding)

\* the user's message and the error-marked answer to it, after a failed POST
C26_Witness ==
    /\ chat.mounted
    /\ ~chat.isTyping
    /\ Len(chat.chatMessages) = 2
    /\ chat.chatMessages[1].id = "temp"
    /\ chat.chatMessages[2].isError
    /\ ~SendOutstanding

----------------------------------------------------------------------------
(* Late answers *)

\* a step in which the mounted ChatScreen receives the history, or the answer
\* to a send, of repository r
LateAnswer(r) ==
    \E q \in net :
        /\ q.live
        /\ q.repo = r
        /\ \/ \E outcome \in HistoryOutcomes(r) : HistoryResponse(q, outcome)
           \/ \E outcome \in {"ok", "not ok", "throws"} : SendResponse(q, outcome)

\* C27: when the active repository has changed while a history load or a
\* send for the previous repository was in flight, the late response is not
\* added to the message list shown for the newly active repository and does
\* not replace it.
C27_LateAnswersIgnored ==
    [][\A r \in Repos :
           (LateAnswer(r) /\ r /= layout.activeRepo)
               => chat'.chatMessages = chat.chatMessages]_vars

=============================================================================
